---- MODULE Spec2Model ----
(***************************************************************************)
(* Model of the dynamic table engine of app/services/dynamictable.py.      *)
(*                                                                         *)
(* Python values are modelled as follows.                                  *)
(*   str    a sequence of one-character strings (so that replace, isdigit  *)
(*          and float parsing are computed character by character);        *)
(*   float  a record [k, v]: k = "fin" with v the value in thousandths, or *)
(*          k = "inf" / "ninf" / "nan".  Arithmetic on thousandths is      *)
(*          exact; the finite range is scaled down to FloatMax units so    *)
(*          that short digit strings reach the overflow to infinity that   *)
(*          Python reaches beyond 1.8e308;                                 *)
(*   JSON value   a record [t, s, v] with t in "str", "int", "float",      *)
(*          "null", "list";                                                *)
(*   dict   an ordered key sequence with an aligned value sequence.        *)
(***************************************************************************)
EXTENDS Integers, Sequences, FiniteSets, TLC

VARIABLES pc, tag, data, doc, tables, table_format, cmap, error, executor, upload, request, endpoint

vars == <<pc, tag, data, doc, tables, table_format, cmap, error, executor, upload, request, endpoint>>

\* the state of the operations other than table generation
others == <<executor, upload, request, endpoint>>

(***************************************************************************)
(* Bounds of the model.                                                    *)
(***************************************************************************)
MaxMonths == 34
MaxRows == 2
MaxStrLen == 3
FloatMax == 99999
MaxColors == 2
MaxWorkers == 2

(***************************************************************************)
(* Program constants.                                                      *)
(***************************************************************************)
MAX_DYNAMIC_COLS == 16

(***************************************************************************)
(* Strings.                                                                *)
(***************************************************************************)
DigitSeq == <<"0", "1", "2", "3", "4", "5", "6", "7", "8", "9">>

Digits == {DigitSeq[i] : i \in 1..10}

DigitVal(c) == (CHOOSE i \in 1..10 : DigitSeq[i] = c) - 1

Range(s) == {s[i] : i \in 1..Len(s)}

Abs(n) == IF n < 0 THEN -n ELSE n

Min(a, b) == IF a < b THEN a ELSE b

Contains(s, x) == \E i \in 1..Len(s) : s[i] = x

\* F applied to the value of x (x is evaluated once, as a local variable
\* assigned once is)
With(x, F(_)) == CHOOSE r \in {F(v) : v \in {x}} : TRUE

With3(x, y, z, F(_, _, _)) == CHOOSE r \in {F(a, b, c) : a \in {x}, b \in {y}, c \in {z}} : TRUE

RECURSIVE NatToStr(_)
NatToStr(n) == IF n < 10 THEN <<DigitSeq[n + 1]>>
               ELSE NatToStr(n \div 10) \o <<DigitSeq[(n % 10) + 1]>>

\* str(n) of a Python int
IntToStr(n) == IF n < 0 THEN <<"-">> \o NatToStr(-n) ELSE NatToStr(n)

\* s.replace(c, '') for a one-character c
Remove(s, c) == SelectSeq(s, LAMBDA x : x # c)

\* s.isdigit()
IsDigit(s) == s # <<>> /\ \A i \in 1..Len(s) : s[i] \in Digits

RECURSIVE DigitsToNat(_)
DigitsToNat(s) == IF s = <<>> THEN 0
                  ELSE 10 * DigitsToNat(SubSeq(s, 1, Len(s) - 1)) + DigitVal(s[Len(s)])

Count(s, c) == Cardinality({i \in 1..Len(s) : s[i] = c})

IndexOf(s, c) == IF \E i \in 1..Len(s) : s[i] = c
                 THEN CHOOSE i \in 1..Len(s) : s[i] = c /\ \A j \in 1..(i - 1) : s[j] # c
                 ELSE 0

Total == <<"T", "o", "t", "a", "l">>
Staff == <<"S", "t", "a", "f", "f">>
SNo == <<"S", "N", "o">>
Dept == <<"D", "e", "p", "t">>
KeyMonths == <<"m", "o", "n", "t", "h", "s">>
KeyPhase == <<"p", "h", "a", "s", "e">>
KeyPhaseType == <<"p", "h", "a", "s", "e", "T", "y", "p", "e">>
NoneText == <<"N", "o", "n", "e">>
ReprText == <<"[...]">>

(***************************************************************************)
(* Floats.                                                                 *)
(***************************************************************************)
Fin(v) == [k |-> "fin", v |-> v]
Inf == [k |-> "inf", v |-> 0]
NInf == [k |-> "ninf", v |-> 0]
NaN == [k |-> "nan", v |-> 0]

\* a real number of v thousandths, as the nearest float
ToFloat(v) == IF v > FloatMax * 1000 THEN Inf
              ELSE IF v < -(FloatMax * 1000) THEN NInf
              ELSE Fin(v)

\* a + b on floats.  Finite sums are exact decimal sums: the rounding error
\* of binary floating point is left out.
FAdd(a, b) ==
    IF a.k = "nan" \/ b.k = "nan" THEN NaN
    ELSE IF a.k = "fin" /\ b.k = "fin" THEN ToFloat(a.v + b.v)
    ELSE IF a.k = "fin" THEN b
    ELSE IF b.k = "fin" THEN a
    ELSE IF a.k = b.k THEN a
    ELSE NaN

(***************************************************************************)
(* float(s) for a str s: an optional sign, then digits with at most one    *)
(* point and at least one digit.  Anything else is a ValueError.           *)
(***************************************************************************)
FloatBody(s) == IF s # <<>> /\ s[1] \in {"-", "+"} THEN Tail(s) ELSE s

FloatSyntaxOk(s) ==
    LET b == FloatBody(s)
    IN  /\ b # <<>>
        /\ Range(b) \subseteq (Digits \cup {"."})
        /\ Count(b, ".") <= 1
        /\ \E i \in 1..Len(b) : b[i] \in Digits

\* the digits after the point, as thousandths (the model's strings carry at
\* most three of them)
FracThousandths(f) ==
    LET p == SubSeq(f \o <<"0", "0", "0">>, 1, 3) IN DigitsToNat(p)

FloatOfStr(s) ==
    LET b == FloatBody(s)
        dot == IndexOf(b, ".")
        ip == IF dot = 0 THEN b ELSE SubSeq(b, 1, dot - 1)
        fp == IF dot = 0 THEN <<>> ELSE SubSeq(b, dot + 1, Len(b))
        mag == DigitsToNat(ip) * 1000 + FracThousandths(fp)
    IN  IF s[1] = "-" THEN ToFloat(-mag) ELSE ToFloat(mag)

(***************************************************************************)
(* JSON values.                                                            *)
(***************************************************************************)
VStr(s) == [t |-> "str", s |-> s, v |-> 0]
VInt(n) == [t |-> "int", s |-> <<>>, v |-> n]
VFloat(v) == [t |-> "float", s |-> <<>>, v |-> v]
VNull == [t |-> "null", s |-> <<>>, v |-> 0]
VList == [t |-> "list", s |-> <<>>, v |-> 0]


\* str(x) of a float of v units with `places` decimal digits (the shortest
\* representation: trailing zeros dropped, one decimal digit kept); neg
\* marks a negative value, including negative zero
DecStr(v, places, neg) ==
    LET unit == IF places = 2 THEN 100 ELSE 1000
        a == Abs(v)
        ip == a \div unit
        fr == a % unit
        d1 == <<DigitSeq[(fr \div (unit \div 10)) + 1]>>
        d2 == <<DigitSeq[((fr \div (unit \div 100)) % 10) + 1]>>
        d3 == IF places = 3 THEN <<DigitSeq[(fr % 10) + 1]>> ELSE <<>>
        full == d1 \o d2 \o d3
        cut == IF \E n \in 1..Len(full) : full[n] # "0"
               THEN CHOOSE n \in 1..Len(full) :
                        full[n] # "0" /\ \A j \in (n + 1)..Len(full) : full[j] = "0"
               ELSE 1
    IN  (IF neg THEN <<"-">> ELSE <<>>) \o NatToStr(ip) \o <<".">> \o SubSeq(full, 1, cut)

\* str(value) for a JSON value
StrOf(value) ==
    CASE value.t = "str" -> value.s
      [] value.t = "int" -> IntToStr(value.v)
      [] value.t = "float" -> DecStr(value.v, 3, value.v < 0)
      [] value.t = "null" -> NoneText
      [] OTHER -> ReprText

(***************************************************************************)
(* Dicts: rows, month entries, the color map.                              *)
(***************************************************************************)
HasKey(d, k) == \E i \in 1..Len(d.keys) : d.keys[i] = k

\* d[k] for a key the dict holds
Lookup(d, k) == d.vals[CHOOSE i \in 1..Len(d.keys) : d.keys[i] = k]

EmptyDict == [keys |-> <<>>, vals |-> <<>>]

\* the dict left by d[ks[i]] = vs[i] for i = 1, 2, ...: a key keeps the
\* place of its first assignment and the value of its last
DictFromPairs(ks, vs) ==
    LET first(i) == \A j \in 1..(i - 1) : ks[j] # ks[i]
        last(k) == CHOOSE i \in 1..Len(ks) : ks[i] = k /\ \A j \in (i + 1)..Len(ks) : ks[j] # k
        Build(idx) == [keys |-> [p \in 1..Len(idx) |-> ks[idx[p]]],
                       vals |-> [p \in 1..Len(idx) |-> vs[last(ks[idx[p]])]]]
    IN  With(SelectSeq([i \in 1..Len(ks) |-> i], first), Build)

\* row_data.get('months', [])
MonthsOf(row) == IF HasKey(row, KeyMonths) THEN row.months ELSE <<>>

\* the month_map of one row:
\* for month_obj in months: for name, info in month_obj.items(): month_map[name] = info
MonthMapOf(months) ==
    DictFromPairs([i \in 1..Len(months) |-> months[i].name],
                  [i \in 1..Len(months) |-> months[i].info])

MonthMap(row) == With(MonthsOf(row), MonthMapOf)

\* month_map.get(header, {})
NoInfo == [hasPhase |-> FALSE, phase |-> <<>>, hasValue |-> FALSE, value |-> VNull]

\* the lookup that takes the first entry of the row whatever its series
MonthInfoAnySeries(mm, header) == IF mm.keys # <<>> THEN mm.vals[1] ELSE NoInfo

MonthInfo(mm, header) == IF HasKey(mm, header) THEN Lookup(mm, header) ELSE NoInfo

(***************************************************************************)
(* Numeric coercion of one value, as calculate_column_total and            *)
(* calculate_grand_total do it. exc names the exception float() raises.    *)
(***************************************************************************)
\* the guard with the removal of '-' forgotten
DigitGuardNoMinus(s) == IsDigit(Remove(s, "."))

DigitGuard(s) == IsDigit(Remove(Remove(s, "."), "-"))

ToNumber(value) ==
    CASE value.t = "str" ->
            IF DigitGuard(value.s)
            THEN IF FloatSyntaxOk(value.s)
                 THEN [exc |-> "none", f |-> FloatOfStr(value.s)]
                 ELSE [exc |-> "ValueError", f |-> Fin(0)]
            ELSE [exc |-> "none", f |-> Fin(0)]
      [] value.t = "int" ->
            IF Abs(value.v) > FloatMax
            THEN [exc |-> "OverflowError", f |-> Fin(0)]
            ELSE [exc |-> "none", f |-> Fin(value.v * 1000)]
      [] value.t = "float" -> [exc |-> "none", f |-> Fin(value.v)]
      [] OTHER -> [exc |-> "TypeError", f |-> Fin(0)]

Caught == {"ValueError", "TypeError"}

\* one pass of the try block: the running total after this value
AddValue(acc, value) ==
    LET n == ToNumber(value)
    IN  IF acc.exc # "none" THEN acc
        ELSE IF n.exc = "none" THEN [exc |-> "none", f |-> FAdd(acc.f, n.f)]
        ELSE IF n.exc \in Caught THEN acc
        ELSE [exc |-> n.exc, f |-> acc.f]

ZeroTotal == [exc |-> "none", f |-> Fin(0)]

\* the loop over values[i], values[i + 1], ... from the running total acc
RECURSIVE SumFrom(_, _, _)
SumFrom(values, i, acc) ==
    IF i > Len(values) THEN acc
    ELSE With(AddValue(acc, values[i]), LAMBDA a : SumFrom(values, i + 1, a))

SumValues(values) == SumFrom(values, 1, ZeroTotal)

\* month_info.get('value', 0) of every row's month_map
ColumnValues(month_maps, header) ==
    [i \in 1..Len(month_maps) |->
        IF HasKey(month_maps[i], header) /\ Lookup(month_maps[i], header).hasValue
        THEN Lookup(month_maps[i], header).value
        ELSE VInt(0)]

calculate_column_total(month_maps, header) ==
    With(ColumnValues(month_maps, header), SumValues)

\* row_data.get('Total', 0) of every row
TotalValues(rows) ==
    [i \in 1..Len(rows) |-> IF HasKey(rows[i], Total) THEN Lookup(rows[i], Total) ELSE VInt(0)]

calculate_grand_total(rows) == With(TotalValues(rows), SumValues)

(***************************************************************************)
(* Rendering of a total:                                                   *)
(* str(int(x)) if x == int(x) else str(round(x, 2)).                       *)
(* int() of an infinity raises OverflowError, of a nan ValueError.         *)
(***************************************************************************)
\* round(x, 2) in hundredths (ties to even; the model's inputs produce none)
Round2(v) ==
    LET q == v \div 10
        r == v % 10
    IN  IF r < 5 THEN q
        ELSE IF r > 5 THEN q + 1
        ELSE IF q % 2 = 0 THEN q ELSE q + 1

FormatTotal(x) ==
    CASE x.k = "nan" -> [exc |-> "ValueError", text |-> <<>>]
      [] x.k \in {"inf", "ninf"} -> [exc |-> "OverflowError", text |-> <<>>]
      [] OTHER ->
            IF x.v % 1000 = 0
            THEN [exc |-> "none", text |-> IntToStr(x.v \div 1000)]
            ELSE [exc |-> "none", text |-> DecStr(Round2(x.v), 2, x.v < 0)]


(***************************************************************************)
(* Cells and tables.  A cell is its text, the fills set_cell_shading       *)
(* appended to it, and the exception raised while it was written.          *)
(* A table is its header list and its rendered rows: the header row, the   *)
(* data rows, and (custom strategy) the totals row.                        *)
(***************************************************************************)
Cell(text, shade) == [text |-> text, shade |-> shade, exc |-> "none"]

RaisedCell(text, exc) == [text |-> text, shade |-> <<>>, exc |-> exc]

EmptyCell == Cell(<<>>, <<>>)

\* color_hex.replace("#", "")
Fill(color_hex) == Remove(color_hex, "#")

\* a cell with its text set and then shaded; color is an entry of the color
\* map: [none, c], none when the map holds None
ShadedCell(text, color) ==
    IF color.none THEN RaisedCell(text, "AttributeError")
    ELSE Cell(text, <<Fill(color.c)>>)

\* if phase and phase in color_map: set_cell_shading(cell, color_map[phase])
PhaseCell(text, hasPhase, phase, color_map) ==
    IF hasPhase /\ phase # <<>> /\ HasKey(color_map, phase)
    THEN ShadedCell(text, Lookup(color_map, phase))
    ELSE Cell(text, <<>>)

HeaderRow(headers, header_color) ==
    [i \in 1..Len(headers) |-> Cell(headers[i], <<Fill(header_color)>>)]

RowExc(cells) ==
    IF \E i \in 1..Len(cells) : cells[i].exc # "none"
    THEN cells[CHOOSE i \in 1..Len(cells) :
                  cells[i].exc # "none" /\ \A j \in 1..(i - 1) : cells[j].exc = "none"].exc
    ELSE "none"

\* what a row holds when writing cell after cell stopped at the first raise
RowUpToRaise(cells) ==
    [i \in 1..Len(cells) |->
        IF \E j \in 1..(i - 1) : cells[j].exc # "none" THEN EmptyCell ELSE cells[i]]

RowsExc(rs) ==
    IF \E i \in 1..Len(rs) : RowExc(rs[i]) # "none"
    THEN RowExc(rs[CHOOSE i \in 1..Len(rs) :
                      RowExc(rs[i]) # "none" /\ \A j \in 1..(i - 1) : RowExc(rs[j]) = "none"])
    ELSE "none"

\* the rows a table holds when adding row after row stopped at the first raise
RowsUpToRaise(rs) ==
    IF RowsExc(rs) = "none" THEN rs
    ELSE LET n == CHOOSE i \in 1..Len(rs) :
                      RowExc(rs[i]) # "none" /\ \A j \in 1..(i - 1) : RowExc(rs[j]) = "none"
         IN  [i \in 1..n |-> RowUpToRaise(rs[i])]

\* row_data.get(header, '') then str()
FieldText(row, header) == IF HasKey(row, header) THEN StrOf(Lookup(row, header)) ELSE <<>>

\* one data cell of _create_single_table
DataCell(row, month_map, row_idx, col_idx, header, color_map) ==
    LET Series(info) == PhaseCell(IF info.hasValue THEN StrOf(info.value) ELSE <<>>,
                                  info.hasPhase, info.phase, color_map)
    IN  IF col_idx = 0 THEN Cell(IntToStr(row_idx + 1), <<>>)
        ELSE IF header = Staff THEN Cell(FieldText(row, header), <<>>)
        ELSE IF header = Total THEN Cell(FieldText(row, header), <<>>)
        ELSE With(MonthInfo(month_map, header), Series)

DataRow(row, row_idx, table_headers, color_map) ==
    LET Cells(month_map) ==
            [c \in 1..Len(table_headers) |->
                DataCell(row, month_map, row_idx, c - 1, table_headers[c], color_map)]
    IN  With(MonthMap(row), Cells)

\* the totals row that counts the data rows only
TotalsCellOffByOne(col_idx, header, n_rows, column_totals, grand_total) ==
    LET Render(r) == IF r.exc = "none" THEN Cell(r.text, <<>>) ELSE RaisedCell(<<>>, r.exc)
    IN  IF col_idx = 0 THEN Cell(IntToStr(n_rows), <<>>)
        ELSE IF col_idx = 1 THEN Cell(Total, <<>>)
        ELSE IF header = Total THEN With(FormatTotal(grand_total.f), Render)
        ELSE With(FormatTotal(column_totals[col_idx - 1].f), Render)

\* one cell of the totals row; column_totals[i] is the total of
\* table_headers[2:][i]
TotalsCell(col_idx, header, n_rows, column_totals, grand_total) ==
    LET Render(r) == IF r.exc = "none" THEN Cell(r.text, <<>>) ELSE RaisedCell(<<>>, r.exc)
    IN  IF col_idx = 0 THEN Cell(IntToStr(n_rows + 1), <<>>)
        ELSE IF col_idx = 1 THEN Cell(Total, <<>>)
        ELSE IF header = Total THEN With(FormatTotal(grand_total.f), Render)
        ELSE With(FormatTotal(column_totals[col_idx - 1].f), Render)

\* no upload under way, no request received, no response given
NoUpload ==
    [attempt |-> 0, retry_delay |-> 0, puts |-> 0, waits |-> <<>>, current_version |-> 0,
     increment_version |-> FALSE, response |-> <<>>, result |-> <<>>]

NoRequest == [documentIsOld |-> 0, documentName |-> <<>>, driveId |-> <<>>, placeholders |-> EmptyDict, has_data |-> FALSE]

NoEndpoint ==
    [env |-> [fetch |-> "ok", process |-> "ok", upload1 |-> "ok", upload2 |-> "ok"],
     steps |-> <<>>, uploads |-> <<>>, status_code |-> 0, detail |-> "", version |-> 0]

\* no executor: nothing submitted, no worker thread, nothing collected
NoExecutor ==
    [work_queue |-> <<>>, threads |-> <<>>, futures |-> <<>>, completed |-> <<>>,
     column_totals |-> <<>>, grand_total |-> ZeroTotal, totals_row |-> <<>>]

\* list(executor.map(calculate_column_total, table_headers[2:]))
ColumnTotals(table_headers, rows) ==
    LET PerHeader(month_maps) ==
            [i \in 1..(IF Len(table_headers) > 2 THEN Len(table_headers) - 2 ELSE 0) |->
                calculate_column_total(month_maps, table_headers[i + 2])]
    IN  With([i \in 1..Len(rows) |-> MonthMap(rows[i])], PerHeader)

_create_single_table(table_headers, rows, color_map, header_color, month_chunk, has_total_in_this_table, is_split_table) ==
    LET Table(body) == [headers |-> table_headers,
                        rows |-> <<HeaderRow(table_headers, header_color)>> \o body,
                        month_chunk |-> month_chunk,
                        has_total |-> has_total_in_this_table,
                        is_split |-> is_split_table]
        Assemble(data_rows, column_totals, grand_total) ==
            LET sum_exc == IF \E i \in DOMAIN column_totals : column_totals[i].exc # "none"
                           THEN "OverflowError" ELSE grand_total.exc
                Finish(totals_row) ==
                    [exc |-> RowExc(totals_row),
                     tbl |-> Table(Append(data_rows, RowUpToRaise(totals_row)))]
            IN  IF RowsExc(data_rows) # "none"
                THEN [exc |-> RowsExc(data_rows), tbl |-> Table(RowsUpToRaise(data_rows))]
                ELSE IF sum_exc # "none"
                THEN [exc |-> sum_exc, tbl |-> Table(data_rows)]
                ELSE With([c \in 1..Len(table_headers) |->
                              TotalsCell(c - 1, table_headers[c], Len(rows),
                                         column_totals, grand_total)],
                          Finish)
    IN  With3([i \in 1..Len(rows) |-> DataRow(rows[i], i - 1, table_headers, color_map)],
              ColumnTotals(table_headers, rows),
              calculate_grand_total(rows),
              Assemble)

(***************************************************************************)
(* _generate_custom_table: one table, or one table per chunk of            *)
(* MAX_DYNAMIC_COLS month headers plus, when the last chunk is full, a     *)
(* table for 'Total' alone.  The result holds the tables returned (none    *)
(* when a table raised) and the tables created, which doc.add_table left   *)
(* in the document body.                                                   *)
(***************************************************************************)
\* [list(m.keys())[0] for m in rows[0].get('months', [])]
MonthHeaders(rows) == [i \in 1..Len(MonthsOf(rows[1])) |-> MonthsOf(rows[1])[i].name]

\* [h for h in headers if h not in month_headers]
StaticHeaders(headers, month_headers) ==
    SelectSeq(headers, LAMBDA h : ~Contains(month_headers, h))

NumChunks(m) == (m + MAX_DYNAMIC_COLS - 1) \div MAX_DYNAMIC_COLS

\* the slice started one element early
ChunkOffByOne(month_headers, k) ==
    SubSeq(month_headers, IF k = 1 THEN 1 ELSE (k - 1) * MAX_DYNAMIC_COLS,
           Min(k * MAX_DYNAMIC_COLS, Len(month_headers)))

\* month_headers[chunk_idx:chunk_idx + MAX_DYNAMIC_COLS] of the k-th pass
Chunk(month_headers, k) ==
    SubSeq(month_headers, (k - 1) * MAX_DYNAMIC_COLS + 1,
           Min(k * MAX_DYNAMIC_COLS, Len(month_headers)))

\* has_total and is_last_chunk and len(chunk) < MAX_DYNAMIC_COLS
TotalJoinsChunk(has_total, month_headers, k) ==
    /\ has_total
    /\ Len(month_headers) - ((k - 1) * MAX_DYNAMIC_COLS + Len(Chunk(month_headers, k))) = 0
    /\ Len(Chunk(month_headers, k)) < MAX_DYNAMIC_COLS

\* the trailing table forgotten
NeverTrailing(has_total, month_headers) == FALSE

\* has_total and len(month_headers) % MAX_DYNAMIC_COLS == 0
NeedsTrailingTotal(has_total, month_headers) ==
    has_total /\ Len(month_headers) % MAX_DYNAMIC_COLS = 0

\* the calls of _create_single_table, in order
CustomTableCalls(headers, rows, color_map, header_color) ==
    LET Calls(month_headers, static_headers, first2) ==
            LET has_total == Contains(static_headers, Total)
                ChunkTable(chunk, k) ==
                    IF TotalJoinsChunk(has_total, month_headers, k)
                    THEN With(first2 \o chunk \o <<Total>>,
                              LAMBDA table_headers :
                                  _create_single_table(table_headers, rows, color_map,
                                                       header_color, chunk, TRUE, k > 1))
                    ELSE With(first2 \o chunk,
                              LAMBDA table_headers :
                                  _create_single_table(table_headers, rows, color_map,
                                                       header_color, chunk, FALSE, k > 1))
            IN  IF Len(month_headers) > MAX_DYNAMIC_COLS
                THEN [k \in 1..NumChunks(Len(month_headers)) |->
                         With(Chunk(month_headers, k), LAMBDA chunk : ChunkTable(chunk, k))]
                     \o (IF NeedsTrailingTotal(has_total, month_headers)
                         THEN <<With(first2 \o <<Total>>,
                                     LAMBDA table_headers :
                                         _create_single_table(table_headers, rows, color_map,
                                                              header_color, <<>>, TRUE, TRUE))>>
                         ELSE <<>>)
                ELSE <<_create_single_table(headers, rows, color_map, header_color,
                                            month_headers, has_total, FALSE)>>
        WithStatic(month_headers) ==
            With(StaticHeaders(headers, month_headers),
                 LAMBDA static_headers :
                     With(SubSeq(static_headers, 1, Min(2, Len(static_headers))),
                          LAMBDA first2 : Calls(month_headers, static_headers, first2)))
    IN  With(MonthHeaders(rows), WithStatic)

\* the outcome of a sequence of table-building calls: the first raise ends it
CallsOutcome(calls) ==
    LET bad == {i \in 1..Len(calls) : calls[i].exc # "none"}
        stop == IF bad = {} THEN Len(calls)
                ELSE CHOOSE i \in bad : \A j \in bad : i <= j
    IN  [exc |-> IF bad = {} THEN "none" ELSE calls[stop].exc,
         tables |-> IF bad = {} THEN [i \in 1..Len(calls) |-> calls[i].tbl] ELSE <<>>,
         created |-> [i \in 1..stop |-> calls[i].tbl]]

_generate_custom_table(headers, rows, color_map, header_color) ==
    With(CustomTableCalls(headers, rows, color_map, header_color), CallsOutcome)

(***************************************************************************)
(* parse_color_mapping.  An entry of colors is a dict whose values are     *)
(* [nested, hasColor, color]: a plain color string, or a nested dict that  *)
(* may hold a 'color'.  The map's values are [none, c].                    *)
(***************************************************************************)
ColorOf(v) ==
    IF v.nested
    THEN IF v.hasColor THEN [none |-> FALSE, c |-> v.color] ELSE [none |-> TRUE, c |-> <<>>]
    ELSE [none |-> FALSE, c |-> v.color]

\* the (k, v) pairs in the order the two loops meet them
RECURSIVE AllItems(_, _)
AllItems(colors, i) ==
    IF i > Len(colors) THEN [keys |-> <<>>, vals |-> <<>>]
    ELSE LET Join(rest) == [keys |-> colors[i].keys \o rest.keys,
                            vals |-> colors[i].vals \o rest.vals]
         IN  With(AllItems(colors, i + 1), Join)

\* the map in which the first occurrence of a category wins
FirstWinsMapping(colors) ==
    LET Build(items) ==
            LET first(k) == CHOOSE i \in 1..Len(items.keys) :
                                items.keys[i] = k /\ \A j \in 1..(i - 1) : items.keys[j] # k
                d == DictFromPairs(items.keys, items.vals)
            IN  [keys |-> d.keys,
                 vals |-> [p \in 1..Len(d.keys) |-> ColorOf(items.vals[first(d.keys[p])])]]
    IN  With(AllItems(colors, 1), Build)

parse_color_mapping(colors) ==
    LET Build(items) ==
            DictFromPairs(items.keys, [i \in 1..Len(items.vals) |-> ColorOf(items.vals[i])])
    IN  With(AllItems(colors, 1), Build)

(***************************************************************************)
(* detect_table_format                                                     *)
(***************************************************************************)
\* the detector with the header test ahead of the phase test
DetectHeadersFirst(rows, headers, colors) ==
    IF rows = <<>> THEN "simple"
    ELSE IF headers # <<>> THEN "custom"
    ELSE IF HasKey(rows[1], KeyPhaseType) \/ HasKey(rows[1], KeyPhase) THEN "phase_based"
    ELSE "simple"

detect_table_format(rows, headers, colors) ==
    IF rows = <<>> THEN "simple"
    ELSE IF HasKey(rows[1], KeyPhaseType) \/ HasKey(rows[1], KeyPhase) THEN "phase_based"
    ELSE IF headers # <<>> THEN "custom"
    ELSE "simple"

(***************************************************************************)
(* _generate_phase_based_table and _generate_simple_table                  *)
(***************************************************************************)
\* bool(value); a list value is a non-empty list
Truthy(value) ==
    CASE value.t = "str" -> value.s # <<>>
      [] value.t \in {"int", "float"} -> value.v # 0
      [] value.t = "list" -> TRUE
      [] OTHER -> FALSE

\* r.get('phaseType') or r.get('phase')
\* the discriminator that prefers 'phase' to 'phaseType'
RowPhasePhaseFirst(r) ==
    IF HasKey(r, KeyPhase) /\ Truthy(Lookup(r, KeyPhase)) THEN Lookup(r, KeyPhase)
    ELSE IF HasKey(r, KeyPhaseType) THEN Lookup(r, KeyPhaseType)
    ELSE VNull

RowPhase(r) ==
    IF HasKey(r, KeyPhaseType) /\ Truthy(Lookup(r, KeyPhaseType)) THEN Lookup(r, KeyPhaseType)
    ELSE IF HasKey(r, KeyPhase) THEN Lookup(r, KeyPhase)
    ELSE VNull

FlatTable(headers, body, header_color) ==
    [exc |-> RowsExc(body),
     tbl |-> [headers |-> headers,
              rows |-> <<HeaderRow(headers, header_color)>> \o RowsUpToRaise(body),
              month_chunk |-> <<>>, has_total |-> FALSE, is_split |-> FALSE]]

\* the table whose data rows keep a cell for the phase keys as well
PhaseTableWithPhaseCells(rows, color_map, header_color) ==
    LET headers == SelectSeq(rows[1].keys, LAMBDA k : k \notin {KeyPhaseType, KeyPhase})
        body == [i \in 1..Len(rows) |->
                    [c \in 1..Len(rows[1].keys) |->
                        Cell(FieldText(rows[i], rows[1].keys[c]), <<>>)]]
    IN  With(body, LAMBDA b : FlatTable(headers, b, header_color))

_generate_phase_based_table(rows, color_map, header_color) ==
    LET headers == SelectSeq(rows[1].keys, LAMBDA k : k \notin {KeyPhaseType, KeyPhase})
        cell(r, h) ==
            LET phase == RowPhase(r)
            IN  IF phase.t = "list"
                THEN RaisedCell(FieldText(r, h), "TypeError")
                ELSE PhaseCell(FieldText(r, h), Truthy(phase) /\ phase.t = "str", phase.s,
                               color_map)
        body == [i \in 1..Len(rows) |-> [c \in 1..Len(headers) |-> cell(rows[i], headers[c])]]
    IN  With(body, LAMBDA b : FlatTable(headers, b, header_color))

_generate_simple_table(rows, color_map, header_color) ==
    LET headers == rows[1].keys
        body == [i \in 1..Len(rows) |->
                    [c \in 1..Len(headers) |-> Cell(FieldText(rows[i], headers[c]), <<>>)]]
    IN  With(body, LAMBDA b : FlatTable(headers, b, header_color))

(***************************************************************************)
(* _generate_legend_table.  A legend entry is                              *)
(* [hasPhase, phase, hasColor, color] with color a [none, c].              *)
(***************************************************************************)
White == <<"#", "F", "F", "F", "F", "F", "F">>

\* legend_item.get('color', color_map.get(phase_name, '#FFFFFF'))
LegendColor(item, phase_name, color_map) ==
    IF item.hasColor THEN item.color
    ELSE IF HasKey(color_map, phase_name) THEN Lookup(color_map, phase_name)
    ELSE [none |-> FALSE, c |-> White]

LegendCell(item, color_map) ==
    LET phase_name == IF item.hasPhase THEN item.phase ELSE <<>>
        phase_color == LegendColor(item, phase_name, color_map)
    IN  IF ~phase_color.none /\ phase_color.c # <<>>
        THEN Cell(phase_name, <<Fill(phase_color.c)>>)
        ELSE Cell(phase_name, <<>>)

_generate_legend_table(legend, color_map) ==
    [headers |-> <<>>,
     rows |-> [i \in 1..Len(legend) |-> <<LegendCell(legend[i], color_map)>>],
     month_chunk |-> <<>>, has_total |-> FALSE, is_split |-> FALSE]


(***************************************************************************)
(* The document: the body is a sequence of elements, each a paragraph      *)
(* [k = "p", text], a table [k = "tbl", tbl] or a content control          *)
(* [k = "sdt", tag, alias, content]; tag and alias are <<>> when the       *)
(* control has none and <<value>> otherwise; content is again a sequence   *)
(* of elements.                                                            *)
(***************************************************************************)
P(text) == [k |-> "p", text |-> text]

Tbl(t) == [k |-> "tbl", tbl |-> t]

Sdt(t, a, content) == [k |-> "sdt", tag |-> t, alias |-> a, content |-> content]

\* doc.add_paragraph(): an empty paragraph
NewParagraph == P(<<>>)

\* some element of el.iter() is an alias or a tag whose value is title
RECURSIVE HasMarker(_, _)
HasMarker(el, title) ==
    /\ el.k = "sdt"
    /\ \/ el.alias = <<title>>
       \/ el.tag = <<title>>
       \/ \E i \in 1..Len(el.content) : HasMarker(el.content[i], title)

\* the search that takes the first content control whatever its markers
FindFirstSdt(body, title) ==
    LET hits == {i \in 1..Len(body) : body[i].k = "sdt"}
    IN  IF hits = {} THEN 0 ELSE CHOOSE i \in hits : \A j \in hits : i <= j

\* the position in the body of the element find_sdt_by_title returns, 0 for
\* None.  The walk is in document order, and a control that holds the match
\* in a nested control comes before that nested control.
find_sdt_by_title(body, title) ==
    LET hits == {i \in 1..Len(body) : HasMarker(body[i], title)}
    IN  IF hits = {} THEN 0 ELSE CHOOSE i \in hits : \A j \in hits : i <= j

\* the elements with a spacing paragraph before the first table as well
RECURSIVE SpacingBeforeEach(_, _)
SpacingBeforeEach(ts, i) ==
    IF i > Len(ts) THEN <<>>
    ELSE <<NewParagraph, Tbl(ts[i])>> \o SpacingBeforeEach(ts, i + 1)

\* the elements appended for the tables of the custom strategy
RECURSIVE WithSpacing(_, _)
WithSpacing(ts, i) ==
    IF i > Len(ts) THEN <<>>
    ELSE (IF i > 1 THEN <<NewParagraph>> ELSE <<>>) \o <<Tbl(ts[i])>> \o WithSpacing(ts, i + 1)

TablesOf(seq) == [i \in 1..Len(seq) |-> Tbl(seq[i])]

\* the primary tables of the detected strategy: what was returned and what
\* was created
PrimaryTables(table_fmt, headers, rows, color_map, header_color) ==
    IF table_fmt = "phase_based"
    THEN With(<<_generate_phase_based_table(rows, color_map, header_color)>>, CallsOutcome)
    ELSE IF table_fmt = "custom"
    THEN _generate_custom_table(headers, rows, color_map, header_color)
    ELSE With(<<_generate_simple_table(rows, color_map, header_color)>>, CallsOutcome)

\* the legend rendered without the test of the legend list
LegendElementsUnguarded(legend, color_map) ==
    <<NewParagraph, Tbl(_generate_legend_table(legend, color_map))>>

LegendElements(legend, color_map) ==
    IF legend # <<>>
    THEN <<NewParagraph, Tbl(_generate_legend_table(legend, color_map))>>
    ELSE <<>>

\* generate_dynamic_table past its test of rows: the document it leaves,
\* the exception it raises, and its locals table_format and tables
GenerateForRows(body, title, d) ==
    LET Place(color_map, table_fmt, at) ==
            LET Result(made) ==
                    IF made.exc # "none"
                    THEN [exc |-> made.exc,
                          doc |-> [body EXCEPT ![at] = Sdt(body[at].tag, body[at].alias, <<>>)]
                                  \o TablesOf(made.created),
                          table_format |-> table_fmt, tables |-> <<>>]
                    ELSE [exc |-> "none",
                          doc |-> [body EXCEPT ![at] =
                                      Sdt(body[at].tag, body[at].alias,
                                          (IF table_fmt = "custom"
                                           THEN WithSpacing(made.tables, 1)
                                           ELSE TablesOf(made.tables))
                                          \o LegendElements(d.legend, color_map))],
                          table_format |-> table_fmt, tables |-> made.tables]
            IN  IF at = 0
                THEN [exc |-> "none", doc |-> body, table_format |-> table_fmt,
                      tables |-> <<>>]
                ELSE With(PrimaryTables(table_fmt, d.headers, d.rows, color_map,
                                        d.headerColor),
                          Result)
    IN  With3(parse_color_mapping(d.colors),
              detect_table_format(d.rows, d.headers, d.colors),
              find_sdt_by_title(body, title),
              Place)

\* the function with the test of rows forgotten: empty rows still clear the
\* region and render the legend
GenerateWithoutRowsTest(body, title, d) ==
    LET Place(color_map, at) ==
            IF at = 0
            THEN [exc |-> "none", doc |-> body, table_format |-> "simple", tables |-> <<>>]
            ELSE [exc |-> "none",
                  doc |-> [body EXCEPT ![at] = Sdt(body[at].tag, body[at].alias,
                                                   LegendElements(d.legend, color_map))],
                  table_format |-> "simple", tables |-> <<>>]
    IN  IF d.rows = <<>>
        THEN With(parse_color_mapping(d.colors),
                  LAMBDA color_map : Place(color_map, find_sdt_by_title(body, title)))
        ELSE GenerateForRows(body, title, d)

generate_dynamic_table(body, title, d) ==
    IF d.rows = <<>>
    THEN [exc |-> "none", doc |-> body, table_format |-> "", tables |-> <<>>]
    ELSE GenerateForRows(body, title, d)

(***************************************************************************)
(* Inputs.                                                                 *)
(***************************************************************************)
HeaderColor == <<"#", "3", "3", "3", "3", "9", "9">>
Phase1 == <<"P", "1">>
Phase2 == <<"P", "2">>
Color1 == <<"#", "F", "F", "C", "0", "0", "0">>
Color2 == <<"#", "0", "0", "B", "0", "5", "0">>

PlainColor(c) == [nested |-> FALSE, hasColor |-> TRUE, color |-> c]

Colors1 == <<[keys |-> <<Phase1>>, vals |-> <<PlainColor(Color1)>>]>>

MonthName(i) == <<"M">> \o NatToStr(i)

MonthEntry(name, hasPhase, phase, hasValue, value) ==
    [name |-> name,
     info |-> [hasPhase |-> hasPhase, phase |-> phase, hasValue |-> hasValue, value |-> value]]

Row(keys, vals, months) == [keys |-> keys, vals |-> vals, months |-> months]

Payload(headers, rows, colors, legend) ==
    [headers |-> headers, rows |-> rows, colors |-> colors, legend |-> legend,
     headerColor |-> HeaderColor]

\* a pivoted row with m months, each of value "1" in phase P1
WideRow(m) ==
    Row(<<SNo, Staff, Dept, Total, KeyMonths>>,
        <<VStr(<<"7">>), VStr(<<"A">>), VStr(<<"D">>), VStr(<<"3">>), VList>>,
        [i \in 1..m |-> MonthEntry(MonthName(i), TRUE, Phase1, TRUE, VStr(<<"1">>))])

\* the header lists supplied with month headers mh: 'Total' last, absent,
\* first, fourth, last after a label other than 'Staff', and second after a
\* single label
HeaderOrders(mh) ==
    { <<SNo, Staff>> \o mh \o <<Total>>,
      <<SNo, Staff>> \o mh,
      <<Total, Staff>> \o mh,
      <<SNo, Staff, Dept, Total>> \o mh,
      <<SNo, Dept>> \o mh \o <<Total>>,
      <<Staff>> \o mh \o <<Total>> }

ChunkPayloads ==
    { Payload(h, <<WideRow(m)>>, Colors1, <<>>) :
        <<m, h>> \in UNION { {<<m, h>> : h \in HeaderOrders([i \in 1..m |-> MonthName(i)])} :
                             m \in 0..MaxMonths } }

\* the values of a series entry and of a row's Total that aggregation meets
SeriesValues ==
    { VStr(<<"1">>), VStr(<<"2", ".", "5">>), VStr(<<"-", "3">>),
      VStr(<<"1", "2", ".", "0", "0", "1">>), VStr(<<"1", ".", "2", ".", "3">>),
      VStr(<<"-">>), VStr(<<"x">>), VStr(<<"9", "9", "9", "9", "9", "9">>),
      VInt(2), VFloat(500), VNull, VList, VInt(1000000) }

\* a series entry of a row: absent from months, without a value, or a value
SeriesEntries ==
    { [present |-> FALSE, hasValue |-> FALSE, value |-> VNull],
      [present |-> TRUE, hasValue |-> FALSE, value |-> VNull] }
    \cup { [present |-> TRUE, hasValue |-> TRUE, value |-> v] : v \in SeriesValues }

TotalFields ==
    { [has |-> FALSE, value |-> VNull],
      [has |-> TRUE, value |-> VStr(<<"3">>)],
      [has |-> TRUE, value |-> VFloat(1500)],
      [has |-> TRUE, value |-> VStr(<<"-", "9", "9", "9", "9", "9", "9">>)] }

NarrowRow(e, t) ==
    Row((IF t.has THEN <<Staff, Total>> ELSE <<Staff>>) \o <<KeyMonths>>,
        (IF t.has THEN <<VStr(<<"A">>), t.value>> ELSE <<VStr(<<"A">>)>>) \o <<VList>>,
        IF e.present
        THEN <<MonthEntry(MonthName(1), TRUE, Phase1, e.hasValue, e.value)>>
        ELSE <<>>)

NarrowRows == { NarrowRow(e, t) : e \in SeriesEntries, t \in TotalFields }

\* the rows that follow the first one
FollowValues ==
    { VStr(<<"2", ".", "5">>), VStr(<<"-", "3">>), VStr(<<"1", ".", "2", ".", "3">>),
      VStr(<<"9", "9", "9", "9", "9", "9">>), VInt(2), VNull }

FollowRows ==
    { NarrowRow([present |-> TRUE, hasValue |-> TRUE, value |-> v], t) :
        v \in FollowValues,
        t \in { [has |-> FALSE, value |-> VNull], [has |-> TRUE, value |-> VFloat(1500)] } }

NarrowHeaders == <<SNo, Staff, MonthName(1), Total>>

TotalsPayloads ==
    { Payload(NarrowHeaders, <<r>> \o rs, Colors1, <<>>) :
        r \in NarrowRows, rs \in UNION { [1..n -> FollowRows] : n \in 0..(MaxRows - 1) } }

\* one row whose series value is any string over a small alphabet
Alphabet == {"1", "5", ".", "-", "x"}

Strings == UNION { [1..n -> Alphabet] : n \in 0..MaxStrLen }

StringPayloads ==
    { Payload(NarrowHeaders,
              <<NarrowRow([present |-> TRUE, hasValue |-> TRUE, value |-> VStr(s)],
                          [has |-> TRUE, value |-> VStr(s)])>>,
              Colors1, <<>>) : s \in Strings }

\* two rows over two series; each entry is absent, or has any of a phase the
\* color map holds (P1, P2), no phase, a value, no value; the second entry of
\* a row may be for the first series again
SeriesPayloads ==
    LET Entries(name) ==
            { <<>>,
              <<MonthEntry(name, TRUE, Phase1, TRUE, VStr(<<"1">>))>>,
              <<MonthEntry(name, TRUE, Phase2, TRUE, VStr(<<"2">>))>>,
              <<MonthEntry(name, FALSE, <<>>, TRUE, VStr(<<"x">>))>>,
              <<MonthEntry(name, TRUE, Phase1, FALSE, VNull)>> }
        SeriesRows ==
            { Row(<<Staff, Total, KeyMonths>>, <<VStr(<<"A">>), VStr(<<"3">>), VList>>, e1 \o e2) :
                e1 \in Entries(MonthName(1)),
                e2 \in Entries(MonthName(2))
                        \cup {<<MonthEntry(MonthName(1), TRUE, Phase2, TRUE, VStr(<<"5">>))>>} }
        Colors12 == <<[keys |-> <<Phase1, Phase2>>,
                       vals |-> <<PlainColor(Color1), PlainColor(Color2)>>]>>
    IN  { Payload(<<SNo, Staff, MonthName(1), MonthName(2), Total>>, <<r1, r2>>, Colors12, <<>>) :
            r1 \in SeriesRows,
            r2 \in { r \in SeriesRows : Len(r.months) = 2 /\ r.months[1].info.hasValue } }

CustomPayloads == ChunkPayloads \cup TotalsPayloads \cup StringPayloads \cup SeriesPayloads

(***************************************************************************)
(* _generate_custom_table called as generate_dynamic_table calls it, on    *)
(* every payload of the custom strategy.                                   *)
(***************************************************************************)
InitCustom ==
    /\ pc = "call"
    /\ tag = <<>>
    /\ data \in CustomPayloads
    /\ doc = <<>>
    /\ tables = <<>>
    /\ table_format = "custom"
    /\ cmap = EmptyDict
    /\ error = "none"
    /\ endpoint = NoEndpoint
    /\ request = NoRequest
    /\ upload = NoUpload
    /\ executor = NoExecutor

Call_generate_custom_table ==
    /\ pc = "call"
    /\ \E cm \in {parse_color_mapping(data.colors)} :
       \E r \in {_generate_custom_table(data.headers, data.rows, cm, data.headerColor)} :
           /\ cmap' = cm
           /\ tables' = r.tables
           /\ error' = r.exc
           /\ doc' = doc \o TablesOf(r.created)
           /\ pc' = IF r.exc = "none" THEN "done" ELSE "raised"
    /\ UNCHANGED <<tag, data, table_format>>
    /\ UNCHANGED others

NextCustom == Call_generate_custom_table

SpecCustom == InitCustom /\ [][NextCustom]_vars


(***************************************************************************)
(* detect_table_format called on rows of every shape.                      *)
(***************************************************************************)
FlatRow(keys) == Row(keys, [i \in 1..Len(keys) |-> VStr(<<"v">>)], <<>>)

KeyX == <<"x">>

\* first rows: plain, with 'phase', with 'phaseType', with both, pivoted
FirstRows ==
    { FlatRow(<<KeyX>>), FlatRow(<<KeyPhase, KeyX>>), FlatRow(<<KeyX, KeyPhaseType>>),
      FlatRow(<<KeyPhaseType, KeyPhase, KeyX>>), WideRow(1) }

DetectRows ==
    {<<>>} \cup { <<r>> : r \in FirstRows }
           \cup { <<r, q>> : r \in FirstRows, q \in FirstRows }

DetectHeaders == { <<>>, <<KeyX>>, NarrowHeaders }

NestedColor(has, c) == [nested |-> TRUE, hasColor |-> has, color |-> c]

\* colors: none, one plain entry, a duplicate category, a nested entry
\* without a color
ColorLists ==
    { <<>>,
      Colors1,
      <<[keys |-> <<Phase1>>, vals |-> <<PlainColor(Color1)>>],
        [keys |-> <<Phase1, Phase2>>, vals |-> <<NestedColor(TRUE, Color2), PlainColor(Color1)>>]>>,
      <<[keys |-> <<Phase1>>, vals |-> <<NestedColor(FALSE, <<>>)>>]>> }

InitDetect ==
    /\ pc = "call"
    /\ tag = <<>>
    /\ data \in { Payload(h, r, c, <<>>) : h \in DetectHeaders, r \in DetectRows, c \in ColorLists }
    /\ doc = <<>>
    /\ tables = <<>>
    /\ table_format = ""
    /\ cmap = EmptyDict
    /\ error = "none"
    /\ endpoint = NoEndpoint
    /\ request = NoRequest
    /\ upload = NoUpload
    /\ executor = NoExecutor

Call_detect_table_format ==
    /\ pc = "call"
    /\ table_format' = detect_table_format(data.rows, data.headers, data.colors)
    /\ pc' = "done"
    /\ UNCHANGED <<tag, data, doc, tables, cmap, error>>
    /\ UNCHANGED others

NextDetect == Call_detect_table_format

SpecDetect == InitDetect /\ [][NextDetect]_vars

(***************************************************************************)
(* parse_color_mapping called on every colors list of up to MaxColors      *)
(* entries; an entry names one category or two.                            *)
(***************************************************************************)
ColorValues ==
    { PlainColor(Color1), PlainColor(Color2), NestedColor(TRUE, Color2),
      NestedColor(TRUE, Color1), NestedColor(FALSE, <<>>) }

ColorEntries ==
    { [keys |-> <<k>>, vals |-> <<v>>] : k \in {Phase1, Phase2}, v \in ColorValues }
    \cup { [keys |-> <<Phase2, Phase1>>, vals |-> <<v, w>>] : v \in ColorValues, w \in {PlainColor(Color1), NestedColor(TRUE, Color2)} }

InitColors ==
    /\ pc = "call"
    /\ tag = <<>>
    /\ data \in { Payload(<<>>, <<>>, c, <<>>) :
                    c \in UNION { [1..n -> ColorEntries] : n \in 0..MaxColors } }
    /\ doc = <<>>
    /\ tables = <<>>
    /\ table_format = ""
    /\ cmap = EmptyDict
    /\ error = "none"
    /\ endpoint = NoEndpoint
    /\ request = NoRequest
    /\ upload = NoUpload
    /\ executor = NoExecutor

Call_parse_color_mapping ==
    /\ pc = "call"
    /\ cmap' = parse_color_mapping(data.colors)
    /\ pc' = "done"
    /\ UNCHANGED <<tag, data, doc, tables, table_format, error>>
    /\ UNCHANGED others

NextColors == Call_parse_color_mapping

SpecColors == InitColors /\ [][NextColors]_vars

(***************************************************************************)
(* generate_dynamic_table called on a document, a tag and a payload.       *)
(***************************************************************************)
TagTable == <<"t", "a", "b", "l", "e">>
TagOther == <<"n", "a", "m", "e">>
TagAbsent == <<"n", "o", "n", "e">>
OldText == <<"o", "l", "d">>
Intro == <<"i", "n", "t", "r", "o">>

Documents ==
    { <<P(Intro)>>,
      <<P(Intro), Sdt(<<TagTable>>, <<>>, <<P(OldText)>>), P(Intro)>>,
      <<Sdt(<<>>, <<TagTable>>, <<P(OldText)>>)>>,
      <<Sdt(<<TagOther>>, <<TagOther>>, <<P(OldText)>>), Sdt(<<TagTable>>, <<TagOther>>, <<>>)>>,
      <<Sdt(<<TagTable>>, <<>>, <<P(Intro)>>), Sdt(<<TagTable>>, <<>>, <<P(OldText)>>)>>,
      <<Sdt(<<TagOther>>, <<TagTable>>, <<P(Intro)>>), Sdt(<<TagTable>>, <<>>, <<P(OldText)>>)>>,
      <<Sdt(<<TagOther>>, <<>>, <<P(Intro), Sdt(<<TagTable>>, <<>>, <<P(OldText)>>)>>), P(Intro)>> }

Tags == { TagTable, TagOther, TagAbsent }

PhaseRow(phase) == Row(<<KeyX, KeyPhase>>, <<VStr(<<"v">>), phase>>, <<>>)

\* rows: none; flat; flat with a phase (also an empty, a numeric and a list
\* phase); pivoted on one month (a plain value,
\* a value beyond the float range); pivoted on more months than one table holds
PlaceRows ==
    { <<>>,
      <<FlatRow(<<KeyX>>), Row(<<KeyX>>, <<VNull>>, <<>>)>>,
      <<Row(<<Staff, KeyX>>, <<VStr(<<"v">>), VInt(5)>>, <<>>),
        Row(<<KeyX, Dept>>, <<VFloat(2500), VStr(<<"D">>)>>, <<>>)>>,
      <<PhaseRow(VStr(Phase1)), PhaseRow(VStr(Phase2)), PhaseRow(VNull)>>,
      <<PhaseRow(VStr(<<>>)), PhaseRow(VInt(5)), PhaseRow(VList)>>,
      <<Row(<<KeyPhaseType, KeyX, KeyPhase, Staff>>,
            <<VStr(Phase2), VStr(<<"v">>), VStr(Phase1), VInt(5)>>, <<>>),
        Row(<<KeyX, KeyPhaseType, KeyPhase>>, <<VStr(<<"w">>), VStr(<<>>), VStr(Phase1)>>, <<>>),
        Row(<<Staff, KeyX>>, <<VStr(<<"A">>), VStr(<<"u">>)>>, <<>>)>>,
      <<NarrowRow([present |-> TRUE, hasValue |-> TRUE, value |-> VStr(<<"2", ".", "5">>)],
                  [has |-> TRUE, value |-> VStr(<<"3">>)])>>,
      <<NarrowRow([present |-> TRUE, hasValue |-> TRUE,
                   value |-> VStr(<<"9", "9", "9", "9", "9", "9">>)],
                  [has |-> TRUE, value |-> VStr(<<"3">>)])>>,
      <<WideRow(MAX_DYNAMIC_COLS + 1)>>,
      <<WideRow(2 * MAX_DYNAMIC_COLS), WideRow(2 * MAX_DYNAMIC_COLS)>> }

PlaceHeaders ==
    { <<>>,
      NarrowHeaders,
      <<SNo, Staff>> \o [i \in 1..(2 * MAX_DYNAMIC_COLS) |-> MonthName(i)] \o <<Total>> }

LegendEntry(hasPhase, phase, hasColor, color) ==
    [hasPhase |-> hasPhase, phase |-> phase, hasColor |-> hasColor, color |-> color]

Legends ==
    { <<>>,
      <<LegendEntry(TRUE, Phase1, TRUE, [none |-> FALSE, c |-> Color1])>>,
      <<LegendEntry(TRUE, Phase1, FALSE, [none |-> TRUE, c |-> <<>>])>>,
      <<LegendEntry(TRUE, Phase1, FALSE, [none |-> TRUE, c |-> <<>>]),
        LegendEntry(TRUE, Phase2, TRUE, [none |-> TRUE, c |-> <<>>]),
        LegendEntry(FALSE, <<>>, FALSE, [none |-> TRUE, c |-> <<>>])>> }

Init ==
    /\ pc = "call"
    /\ tag \in Tags
    /\ data \in { Payload(h, r, c, l) :
                    h \in PlaceHeaders, r \in PlaceRows, c \in ColorLists, l \in Legends }
    /\ doc \in Documents
    /\ tables = <<>>
    /\ table_format = ""
    /\ cmap = EmptyDict
    /\ error = "none"
    /\ endpoint = NoEndpoint
    /\ request = NoRequest
    /\ upload = NoUpload
    /\ executor = NoExecutor

Call_generate_dynamic_table ==
    /\ pc = "call"
    /\ \E r \in {generate_dynamic_table(doc, tag, data)} :
           /\ doc' = r.doc
           /\ error' = r.exc
           /\ tables' = r.tables
           /\ table_format' = r.table_format
           /\ pc' = IF r.exc = "none" THEN "done" ELSE "raised"
    /\ cmap' = IF data.rows = <<>> THEN cmap ELSE parse_color_mapping(data.colors)
    /\ UNCHANGED <<tag, data>>
    /\ UNCHANGED others

Next == Call_generate_dynamic_table

Spec == Init /\ [][Next]_vars


(***************************************************************************)
(* Properties of _generate_custom_table (under SpecCustom).                *)
(***************************************************************************)
SeriesNames == MonthHeaders(data.rows)

AggregateFlag == Contains(StaticHeaders(data.headers, SeriesNames), Total)

FirstTwoStatic ==
    LET st == StaticHeaders(data.headers, SeriesNames) IN SubSeq(st, 1, Min(2, Len(st)))

\* the series headers a table carries, in the table's order
SeriesOf(t) == SelectSeq(t.headers, LAMBDA h : Contains(SeriesNames, h))

RECURSIVE ConcatSeries(_, _)
ConcatSeries(ts, i) ==
    IF i > Len(ts) THEN <<>> ELSE SeriesOf(ts[i]) \o ConcatSeries(ts, i + 1)

TablesWithTotal == {i \in 1..Len(tables) : Contains(tables[i].headers, Total)}

\* C1: for more than 16 series names, the series headers of the returned
\* tables, concatenated in table order, are exactly the ordered series list,
\* and no table carries more than 16 of them.
C1_ChunkCoverage ==
    (pc = "done" /\ Len(SeriesNames) > MAX_DYNAMIC_COLS) =>
        /\ ConcatSeries(tables, 1) = SeriesNames
        /\ \A i \in 1..Len(tables) : Len(SeriesOf(tables[i])) <= MAX_DYNAMIC_COLS

C1_Witness ==
    /\ pc = "done"
    /\ Len(SeriesNames) = 2 * MAX_DYNAMIC_COLS + 1
    /\ Len(tables) = 3
    /\ SeriesOf(tables[3]) = <<MonthName(2 * MAX_DYNAMIC_COLS + 1)>>

\* the table of the final series chunk, and that chunk's size
FinalChunkIndex == IF Len(SeriesNames) = 0 THEN 1 ELSE NumChunks(Len(SeriesNames))

FinalChunkSize == Len(SeriesNames) - MAX_DYNAMIC_COLS * (FinalChunkIndex - 1)

\* C2: when 'Total' is a static header, the 'Total' header is in exactly one
\* of the returned tables: the final series chunk if that has fewer than 16
\* series columns, otherwise a dedicated trailing table.
C2_TotalInExactlyOneTable ==
    (pc = "done" /\ AggregateFlag) =>
        /\ Cardinality(TablesWithTotal) = 1
        /\ \A i \in TablesWithTotal :
              IF FinalChunkSize < MAX_DYNAMIC_COLS
              THEN i = FinalChunkIndex
              ELSE i = Len(tables) /\ SeriesOf(tables[i]) = <<>>

\* C3: in a wide split no table but the final one has a 'Total' header, and
\* in the table that has it 'Total' occurs once, as the last header,
\* whatever the order of the supplied headers.
C3_TotalLastInFinalTableOnly ==
    (pc = "done" /\ Len(SeriesNames) > MAX_DYNAMIC_COLS) =>
        \A i \in 1..Len(tables) :
            Contains(tables[i].headers, Total) =>
                /\ i = Len(tables)
                /\ Count(tables[i].headers, Total) = 1
                /\ tables[i].headers[Len(tables[i].headers)] = Total

\* the tables of the series chunks alone, then the table of 'Total' alone
TrailingTotalTable ==
    /\ Len(tables) = Len(SeriesNames) \div MAX_DYNAMIC_COLS + 1
    /\ tables[Len(tables)].headers = FirstTwoStatic \o <<Total>>
    /\ \A i \in 1..(Len(tables) - 1) : SeriesOf(tables[i]) # <<>>

NoTrailingTotalTable ==
    /\ Len(tables) = IF Len(SeriesNames) > MAX_DYNAMIC_COLS
                     THEN NumChunks(Len(SeriesNames)) ELSE 1
    /\ \A i \in 1..Len(tables) :
          Len(SeriesNames) > 0 => tables[i].headers # FirstTwoStatic \o <<Total>>

RefIsNumeric(s) ==
    LET b == IF s # <<>> /\ s[1] = "-" THEN Tail(s) ELSE s
    IN  /\ \A i \in 1..Len(b) : b[i] \in Digits \cup {"."}
        /\ Cardinality({i \in 1..Len(b) : b[i] = "."}) <= 1
        /\ \E i \in 1..Len(b) : b[i] \in Digits

\* the number a numeric string denotes, in thousandths
RefDenoted(s) ==
    LET neg == s[1] = "-"
        b == IF neg THEN Tail(s) ELSE s
        dots == {i \in 1..Len(b) : b[i] = "."}
        d == IF dots = {} THEN Len(b) + 1 ELSE CHOOSE i \in dots : TRUE
        frac == SubSeq(SubSeq(b, d + 1, Len(b)) \o <<"0", "0", "0">>, 1, 3)
        mag == DigitsToNat(SubSeq(b, 1, d - 1)) * 1000 + DigitsToNat(frac)
    IN  IF neg THEN -mag ELSE mag

\* coerce: a number to itself, a numeric string to the number it denotes,
\* anything else to 0 (in thousandths)
RefCoerce(value) ==
    CASE value.t = "int" -> value.v * 1000
      [] value.t = "float" -> value.v
      [] value.t = "str" -> IF RefIsNumeric(value.s) THEN RefDenoted(value.s) ELSE 0
      [] OTHER -> 0

RECURSIVE RefSum(_, _)
RefSum(f, n) == IF n = 0 THEN 0 ELSE f[n] + RefSum(f, n - 1)

\* the value of a row's entry for the series s, a missing one as null
RefEntryValue(row, s) ==
    LET info == MonthInfo(MonthMap(row), s) IN IF info.hasValue THEN info.value ELSE VNull

RefSeriesTotal(s) ==
    RefSum([i \in 1..Len(data.rows) |-> RefCoerce(RefEntryValue(data.rows[i], s))],
           Len(data.rows))

RefGrandTotal ==
    RefSum([i \in 1..Len(data.rows) |->
                IF HasKey(data.rows[i], Total)
                THEN RefCoerce(Lookup(data.rows[i], Total)) ELSE 0],
           Len(data.rows))

\* the total of the column under header h
RefTotalUnder(h) == IF h = Total THEN RefGrandTotal ELSE RefSeriesTotal(h)

\* the cell of the totals row of table t in column c (from 1)
TotalsRowCell(t, c) == t.rows[Len(t.rows)][c]

IsTotalled(h) == h = Total \/ Contains(SeriesNames, h)

C6_AggregationNeverRaises == pc # "raised" /\ error = "none"

EndsWithDotZero(s) == Len(s) >= 2 /\ s[Len(s) - 1] = "." /\ s[Len(s)] = "0"

\* C7: every total without a fractional part is rendered as the integer's
\* text, and no total is rendered with a trailing ".0".
C7_IntegerOrTwoDecimals ==
    pc = "done" =>
        \A i \in 1..Len(tables) : \A c \in 3..Len(tables[i].headers) :
            IsTotalled(tables[i].headers[c]) =>
                /\ RefTotalUnder(tables[i].headers[c]) % 1000 = 0 =>
                      TotalsRowCell(tables[i], c).text
                          = IntToStr(RefTotalUnder(tables[i].headers[c]) \div 1000)
                /\ ~EndsWithDotZero(TotalsRowCell(tables[i], c).text)

(***************************************************************************)
(* Properties of detect_table_format (under SpecDetect).                   *)
(***************************************************************************)
\* the decision list on the first row's keys and on whether headers were
\* supplied
RefFormat(no_rows, first_keys, headers_supplied) ==
    CASE no_rows -> "simple"
      [] ~no_rows /\ (KeyPhaseType \in first_keys \/ KeyPhase \in first_keys) -> "phase_based"
      [] ~no_rows /\ KeyPhaseType \notin first_keys /\ KeyPhase \notin first_keys
            /\ headers_supplied -> "custom"
      [] OTHER -> "simple"

\* C8: the format is the first match of: no rows -> simple; the first row
\* has 'phaseType' or 'phase' -> phase_based; headers supplied -> custom;
\* otherwise simple.  It depends on the first row and the headers alone.
C8_FirstMatchDecision ==
    pc = "done" =>
        table_format = RefFormat(data.rows = <<>>,
                                 IF data.rows = <<>> THEN {} ELSE Range(data.rows[1].keys),
                                 data.headers # <<>>)

C8_Witness ==
    /\ pc = "done"
    /\ table_format = "phase_based"
    /\ data.headers # <<>>
    /\ data.colors # <<>>
    /\ Len(data.rows) = 2
    /\ KeyPhase \in Range(data.rows[1].keys)
    /\ KeyPhase \notin Range(data.rows[2].keys)

(***************************************************************************)
(* Properties of generate_dynamic_table (under Spec).                      *)
(***************************************************************************)
\* some content control of the elements els, at any depth, has title as its
\* tag or its alias
RECURSIVE RegionNamed(_, _)
RegionNamed(els, title) ==
    \E i \in 1..Len(els) :
        /\ els[i].k = "sdt"
        /\ \/ els[i].tag = <<title>>
           \/ els[i].alias = <<title>>
           \/ RegionNamed(els[i].content, title)

\* C9: a call with a tag that is the tag or alias of no content control
\* leaves the whole document as it was and raises no error, whatever the
\* payload.
C9_NoOpOnMissingRegion ==
    [][(pc = "call" /\ ~RegionNamed(doc, tag)) =>
            (doc' = doc /\ error' = "none" /\ pc' = "done")]_vars

C9_Witness ==
    /\ pc = "done"
    /\ ~RegionNamed(doc, tag)
    /\ \E i \in 1..Len(doc) : doc[i].k = "sdt"
    /\ table_format = "custom"
    /\ data.legend # <<>>

\* C10: a call with no rows adds no table, no paragraph and no legend, and
\* leaves the content of the target region as it was.
C10_EmptyRowsProduceNothing ==
    [][(pc = "call" /\ data.rows = <<>>) =>
            (doc' = doc /\ tables' = <<>> /\ error' = "none" /\ pc' = "done")]_vars

C10_Witness ==
    /\ pc = "done"
    /\ data.rows = <<>>
    /\ data.legend # <<>>
    /\ data.headers # <<>>
    /\ find_sdt_by_title(doc, tag) # 0
    /\ doc[find_sdt_by_title(doc, tag)].content # <<>>

(***************************************************************************)
(* Properties of the placement (under Spec).                               *)
(***************************************************************************)
\* el is a content control whose own tag or alias is title
OwnMarker(el, title) == el.k = "sdt" /\ (el.tag = <<title>> \/ el.alias = <<title>>)

\* the first element of els that is, or holds at some depth, a content
\* control named title
FirstNamed(els, title) ==
    CHOOSE i \in 1..Len(els) :
        /\ RegionNamed(<<els[i]>>, title)
        /\ \A j \in 1..(i - 1) : ~RegionNamed(<<els[j]>>, title)

\* the content of the first content control, in document order, whose own
\* tag or alias is title
RECURSIVE TargetContent(_, _)
TargetContent(els, title) ==
    LET el == els[FirstNamed(els, title)]
    IN  IF OwnMarker(el, title) THEN el.content ELSE TargetContent(el.content, title)

\* els with the content of that content control replaced
RECURSIVE ReplaceTarget(_, _, _)
ReplaceTarget(els, title, content) ==
    LET i == FirstNamed(els, title)
        el == els[i]
    IN  [els EXCEPT ![i] =
            Sdt(el.tag, el.alias,
                IF OwnMarker(el, title) THEN content
                ELSE ReplaceTarget(el.content, title, content))]

IsTable(el) == el.k = "tbl"

\* content is the tables ts (spacing paragraphs alone between them), then,
\* for a legend, one spacing paragraph and the legend table
PlacedInOrder(content, ts, legend, colors) ==
    LET legend_table == Tbl(_generate_legend_table(legend, parse_color_mapping(colors)))
        n == Len(content)
    IN  /\ n >= 1
        /\ \A i \in 1..n : IsTable(content[i]) \/ content[i] = NewParagraph
        /\ IsTable(content[1])
        /\ SelectSeq(content, IsTable)
              = TablesOf(ts) \o (IF legend # <<>> THEN <<legend_table>> ELSE <<>>)
        /\ IF legend # <<>>
           THEN n >= 3 /\ content[n] = legend_table /\ content[n - 1] = NewParagraph
                       /\ IsTable(content[n - 2])
           ELSE IsTable(content[n])

\* C11: when the region named by the tag exists and rows is not empty, a
\* call that returns leaves in that region only the primary tables followed,
\* for a legend, by one spacing paragraph and the legend table, and changes
\* nothing else of the document.
C11_PlacementOrder ==
    [][(pc = "call" /\ data.rows # <<>> /\ RegionNamed(doc, tag) /\ pc' = "done") =>
            /\ RegionNamed(doc', tag)
            /\ doc' = ReplaceTarget(doc, tag, TargetContent(doc', tag))
            /\ PlacedInOrder(TargetContent(doc', tag), tables', data.legend, data.colors)]_vars

(***************************************************************************)
(* Properties of parse_color_mapping (under SpecColors).                   *)
(***************************************************************************)
\* the (entry, position) pairs of colors at which category k occurs
Occurrences(colors, k) ==
    { <<i, j>> \in UNION { {<<i, j>> : j \in 1..Len(colors[i].keys)} : i \in 1..Len(colors) } :
        colors[i].keys[j] = k }

\* the last of them in list order
LastOccurrence(colors, k) ==
    CHOOSE o \in Occurrences(colors, k) :
        \A q \in Occurrences(colors, k) : q[1] < o[1] \/ (q[1] = o[1] /\ q[2] <= o[2])

\* what a value of the list contributes: the 'color' field of a nested
\* mapping (None when it has none), a plain value itself
Contribution(v) ==
    IF v.nested /\ ~v.hasColor THEN [none |-> TRUE, c |-> <<>>]
    ELSE [none |-> FALSE, c |-> v.color]

Categories(colors) == UNION { Range(colors[i].keys) : i \in 1..Len(colors) }

\* C12: the color map holds exactly the categories of the list, each once,
\* with the contribution of its last occurrence; an empty or missing list
\* gives the empty map; no error is raised.
C12_LastOccurrenceWins ==
    pc = "done" =>
        /\ error = "none"
        /\ Range(cmap.keys) = Categories(data.colors)
        /\ Len(cmap.keys) = Cardinality(Categories(data.colors))
        /\ Len(cmap.vals) = Len(cmap.keys)
        /\ \A p \in 1..Len(cmap.keys) :
              LET o == LastOccurrence(data.colors, cmap.keys[p])
              IN  cmap.vals[p] = Contribution(data.colors[o[1]].vals[o[2]])
        /\ data.colors = <<>> => cmap = EmptyDict

C12_Witness ==
    /\ pc = "done"
    /\ Len(data.colors) = 2
    /\ data.colors[1] = [keys |-> <<Phase1>>, vals |-> <<PlainColor(Color1)>>]
    /\ data.colors[2] = [keys |-> <<Phase2, Phase1>>,
                         vals |-> <<NestedColor(FALSE, <<>>), NestedColor(TRUE, Color2)>>]
    /\ cmap = [keys |-> <<Phase1, Phase2>>,
                    vals |-> <<[none |-> FALSE, c |-> Color2], [none |-> TRUE, c |-> <<>>]>>]

(***************************************************************************)
(* Properties of the rendered rows (under Spec).                           *)
(***************************************************************************)
\* the text a data cell shows for input row `row` under `header`: the
\* row's field for a flat table; for a pivoted table the field for 'Staff'
\* and 'Total' and the series value otherwise
TextUnder(fmt, row, header) ==
    IF fmt # "custom" \/ header \in {Staff, Total}
    THEN FieldText(row, header)
    ELSE LET info == MonthInfo(MonthMap(row), header)
         IN  IF info.hasValue THEN StrOf(info.value) ELSE <<>>

\* C13: in every table returned by any strategy every row has as many
\* cells as the table has headers, the header row shows header c in cell c,
\* and a data cell in column c shows the input row's value for header c
\* (in a pivoted table column 0 is the row counter).
C13_RowsAlignedToHeaders ==
    pc = "done" =>
        \A i \in 1..Len(tables) :
            LET t == tables[i]
                n == Len(data.rows)
            IN  /\ \A r \in 1..Len(t.rows) : Len(t.rows[r]) = Len(t.headers)
                /\ Len(t.rows) >= n + 1
                /\ \A c \in 1..Len(t.headers) : t.rows[1][c].text = t.headers[c]
                /\ \A k \in 1..n : \A c \in 1..Len(t.headers) :
                      (table_format # "custom" \/ c > 1) =>
                          t.rows[k + 1][c].text
                              = TextUnder(table_format, data.rows[k], t.headers[c])

C13_Witness ==
    /\ pc = "done"
    /\ table_format = "phase_based"
    /\ Len(data.rows) = 3
    /\ Len(tables) = 1
    /\ tables[1].headers = <<KeyX>>
    /\ Len(tables[1].rows) = 4
    /\ Len(tables[1].rows[4]) = 1

(***************************************************************************)
(* Properties of the shading (under Spec).                                 *)
(***************************************************************************)
\* the phase that decides the shading of a data cell: the row's
\* discriminator in a phase table, the series entry's 'phase' in a pivoted
\* one; null where there is none
CellPhase(fmt, row, header) ==
    IF fmt = "phase_based" THEN RowPhase(row)
    ELSE IF fmt = "custom" /\ header \notin {Staff, Total}
    THEN LET info == MonthInfo(MonthMap(row), header)
         IN  IF info.hasPhase THEN VStr(info.phase) ELSE VNull
    ELSE VNull

\* the phase is a key of the color map
PhaseIsKey(phase) == phase.t = "str" /\ phase.s # <<>> /\ HasKey(cmap, phase.s)

\* every phase of the payload's rows misses the color map
AllPhasesMiss ==
    \A k \in 1..Len(data.rows) :
        IF table_format = "phase_based" THEN ~PhaseIsKey(RowPhase(data.rows[k]))
        ELSE \A m \in 1..Len(MonthsOf(data.rows[k])) :
                ~PhaseIsKey(CellPhase("custom", data.rows[k], MonthsOf(data.rows[k])[m].name))

ShadingErrors == {"TypeError", "AttributeError", "KeyError"}

\* C14: a data cell whose phase is absent, empty or not a key of the color
\* map is unshaded, a shaded cell has a phase that is a key and carries
\* that key's color, and a payload whose phases all miss raises no error
\* of the lookup.
C14_LookupMissIsNoError ==
    /\ pc = "done" =>
          \A i \in 1..Len(tables) : \A k \in 1..Len(data.rows) :
              \A c \in 1..Len(tables[i].headers) :
                  LET cell == tables[i].rows[k + 1][c]
                      phase == IF table_format = "custom" /\ c = 1 THEN VNull
                               ELSE CellPhase(table_format, data.rows[k],
                                              tables[i].headers[c])
                  IN  /\ ~PhaseIsKey(phase) => cell.shade = <<>>
                      /\ cell.shade # <<>> =>
                            /\ PhaseIsKey(phase)
                            /\ cell.shade = <<Fill(Lookup(cmap, phase.s).c)>>
    /\ (pc = "raised" /\ table_format \in {"phase_based", "custom"} /\ AllPhasesMiss) =>
          error \notin ShadingErrors

(***************************************************************************)
(* Properties of the legend (under Spec).                                  *)
(***************************************************************************)
\* a call that placed its output: rows, a region found, no exception
Placed == pc = "done" /\ data.rows # <<>> /\ find_sdt_by_title(doc, tag) # 0

\* the content of the region the output was placed in
PlacedContent == doc[find_sdt_by_title(doc, tag)].content

\* the legend table placed: the last element of the region
PlacedLegend == PlacedContent[Len(PlacedContent)].tbl

\* the fill of a legend entry: its explicit color; without one (no 'color'
\* key, or None) the color the map holds for its phase name; none when the
\* map has none
RefLegendFill(item) ==
    LET name == IF item.hasPhase THEN item.phase ELSE <<>>
    IN  IF item.hasColor /\ ~item.color.none THEN <<Fill(item.color.c)>>
        ELSE IF HasKey(cmap, name) /\ ~Lookup(cmap, name).none
        THEN <<Fill(Lookup(cmap, name).c)>>
        ELSE <<>>

\* C15: the cell of every legend entry is filled with the entry's explicit
\* color, else with the color the map holds for its phase name, and is
\* unshaded when there is neither.
C15_LegendColorResolution ==
    (Placed /\ data.legend # <<>>) =>
        \A i \in 1..Len(data.legend) :
            PlacedLegend.rows[i][1].shade = RefLegendFill(data.legend[i])

\* the number of elements of els that satisfy Test
CountOf(els, Test(_)) == Cardinality({i \in 1..Len(els) : Test(els[i])})

IsParagraph(el) == el.k = "p"

\* the paragraphs between the primary tables: one before each table after
\* the first in the custom strategy, none otherwise
PrimarySpacing == IF table_format = "custom" THEN Len(tables) - 1 ELSE 0

\* C16: where output was placed, a non-empty legend gives one more table
\* than the primary ones, the last element, with one one-cell row per legend
\* entry showing the entry's phase name in list order, and one more
\* paragraph, right before it; an empty legend gives neither.
C16_LegendPresence ==
    Placed =>
        LET n == Len(PlacedContent)
        IN  IF data.legend # <<>>
            THEN /\ CountOf(PlacedContent, IsTable) = Len(tables) + 1
                 /\ CountOf(PlacedContent, IsParagraph) = PrimarySpacing + 1
                 /\ IsTable(PlacedContent[n])
                 /\ PlacedContent[n - 1] = NewParagraph
                 /\ IsTable(PlacedContent[n - 2])
                 /\ Len(PlacedLegend.rows) = Len(data.legend)
                 /\ \A i \in 1..Len(data.legend) :
                       /\ Len(PlacedLegend.rows[i]) = 1
                       /\ PlacedLegend.rows[i][1].text
                             = IF data.legend[i].hasPhase THEN data.legend[i].phase ELSE <<>>
            ELSE /\ CountOf(PlacedContent, IsTable) = Len(tables)
                 /\ CountOf(PlacedContent, IsParagraph) = PrimarySpacing
                 /\ [i \in 1..Len(tables) |-> Tbl(tables[i])]
                       = SelectSeq(PlacedContent, IsTable)

C16_Witness ==
    /\ Placed
    /\ Len(data.legend) = 3
    /\ table_format = "custom"
    /\ Len(tables) = 3
    /\ Len(PlacedContent) = 7
    /\ Len(PlacedLegend.rows) = 3
    /\ PlacedLegend.rows[2][1].text = Phase2

(***************************************************************************)
(* Properties of the rows of the custom tables (under SpecCustom).         *)
(***************************************************************************)
\* C17: for n input rows every table of the custom strategy has n + 2
\* rows: the header row, the n data rows in input order (numbered 1..n in
\* column 0), and last the totals row, whose column 0 shows n + 1 and whose
\* column 1 shows 'Total'.
C17_AggregateRowStructure ==
    pc = "done" =>
        \A i \in 1..Len(tables) :
            LET t == tables[i]
                n == Len(data.rows)
            IN  /\ Len(t.rows) = n + 2
                /\ \A c \in 1..Len(t.headers) : t.rows[1][c].text = t.headers[c]
                /\ \A k \in 1..n : \A c \in 1..Len(t.headers) :
                      t.rows[k + 1][c].text
                          = IF c = 1 THEN IntToStr(k)
                            ELSE TextUnder("custom", data.rows[k], t.headers[c])
                /\ Len(t.headers) >= 1 => t.rows[n + 2][1].text = IntToStr(n + 1)
                /\ Len(t.headers) >= 2 => t.rows[n + 2][2].text = Total

C17_Witness ==
    /\ pc = "done"
    /\ Len(data.rows) = 2
    /\ Len(tables) = 1
    /\ Len(tables[1].rows) = 4
    /\ tables[1].rows[4][1].text = <<"3">>
    /\ tables[1].rows[4][2].text = Total
    /\ tables[1].rows[3][1].text = <<"2">>

\* C18: in every custom table the data row of the i-th input row shows i
\* in column 0, the row's field named by the table's second header in
\* column 1, and the row's 'Total' field under a 'Total' header.
C18_CustomDataRows ==
    pc = "done" =>
        \A i \in 1..Len(tables) : \A k \in 1..Len(data.rows) :
            LET t == tables[i]
                cells == t.rows[k + 1]
            IN  /\ cells[1].text = IntToStr(k)
                /\ Len(t.headers) >= 2 =>
                      cells[2].text = FieldText(data.rows[k], t.headers[2])
                /\ \A c \in 2..Len(t.headers) :
                      t.headers[c] = Total => cells[c].text = FieldText(data.rows[k], Total)


(***************************************************************************)
(* Properties of the series cells of a pivoted table (under SpecCustom).   *)
(***************************************************************************)
\* the positions in the row's months of the entries for the series s
EntriesFor(row, s) ==
    LET ms == IF HasKey(row, KeyMonths) THEN row.months ELSE <<>>
    IN  {m \in 1..Len(ms) : ms[m].name = s}

\* the row's entry for the series s: the one given last
EntryFor(row, s) ==
    LET last == CHOOSE m \in EntriesFor(row, s) : \A j \in EntriesFor(row, s) : j <= m
    IN  row.months[last].info

C20_SimpleStrategy ==
    (pc = "done" /\ table_format = "simple" /\ data.rows # <<>> /\ RegionNamed(doc, tag)) =>
        /\ Len(tables) = 1
        /\ tables[1].headers = data.rows[1].keys
        /\ Len(tables[1].rows) = Len(data.rows) + 1
        /\ ~tables[1].has_total
        /\ \A k \in 1..Len(data.rows) : \A c \in 1..Len(tables[1].headers) :
              LET row == data.rows[k]
                  h == tables[1].headers[c]
              IN  tables[1].rows[k + 1][c].text
                      = IF HasKey(row, h) /\ Lookup(row, h).t # "null"
                        THEN StrOf(Lookup(row, h)) ELSE <<>>


(***************************************************************************)
(* Properties of the phase-based strategy (under Spec).                    *)
(***************************************************************************)
\* the discriminator of a row: its 'phaseType', else its 'phase', as a
\* category name; the empty name when it has neither
Discriminator(row) ==
    LET named(k) == HasKey(row, k) /\ Lookup(row, k).t = "str" /\ Lookup(row, k).s # <<>>
    IN  IF named(KeyPhaseType) THEN Lookup(row, KeyPhaseType).s
        ELSE IF named(KeyPhase) THEN Lookup(row, KeyPhase).s
        ELSE <<>>

\* C21: a table of the phase-based strategy has the first row's keys
\* without 'phaseType' and 'phase' as headers, one data row per input row
\* and no aggregate row; every data cell of a row is shaded with the color
\* the map holds for that row's discriminator (phaseType, else phase), and
\* is unshaded when the map does not hold it.
C21_PhaseBasedStrategy ==
    (pc = "done" /\ table_format = "phase_based" /\ data.rows # <<>> /\ RegionNamed(doc, tag)) =>
        /\ Len(tables) = 1
        /\ tables[1].headers
             = SelectSeq(data.rows[1].keys, LAMBDA k : k # KeyPhaseType /\ k # KeyPhase)
        /\ Len(tables[1].rows) = Len(data.rows) + 1
        /\ ~tables[1].has_total
        /\ \A k \in 1..Len(data.rows) : \A c \in 1..Len(tables[1].headers) :
              tables[1].rows[k + 1][c].shade
                  = IF HasKey(cmap, Discriminator(data.rows[k]))
                    THEN <<Remove(Lookup(cmap, Discriminator(data.rows[k])).c, "#")>>
                    ELSE <<>>

\* a row shaded by its 'phaseType', a row shaded by its 'phase' because its
\* 'phaseType' is empty, and a row without either
C21_Witness ==
    /\ pc = "done"
    /\ table_format = "phase_based"
    /\ Len(tables) = 1
    /\ tables[1].headers = <<KeyX, Staff>>
    /\ Len(data.rows) = 3
    /\ Discriminator(data.rows[1]) = Phase2
    /\ Discriminator(data.rows[2]) = Phase1
    /\ \A c \in 1..2 : tables[1].rows[2][c].shade = <<Remove(Color1, "#")>>
    /\ \A c \in 1..2 : tables[1].rows[3][c].shade = <<Remove(Color2, "#")>>
    /\ \A c \in 1..2 : tables[1].rows[4][c].shade = <<>>


(***************************************************************************)
(* Properties of the spacing between chunk tables (under Spec).            *)
(***************************************************************************)
\* C22: when the custom strategy returns k tables, k >= 1 and the located
\* region holds them in chunk order at its odd positions 1, 3, ..., 2k - 1
\* with a spacing paragraph at every even position between them, followed
\* by nothing but the legend elements.
C22_ChunkSpacing ==
    (Placed /\ table_format = "custom") =>
        LET k == Len(tables)
        IN  /\ k >= 1
            /\ Len(PlacedContent) = (2 * k - 1) + (IF data.legend = <<>> THEN 0 ELSE 2)
            /\ \A j \in 1..k : PlacedContent[2 * j - 1] = Tbl(tables[j])
            /\ \A j \in 1..(k - 1) : PlacedContent[2 * j].k = "p"

\* three chunk tables and a legend: five elements, then the legend's two
C22_Witness ==
    /\ Placed
    /\ table_format = "custom"
    /\ Len(tables) = 3
    /\ data.legend # <<>>
    /\ Len(PlacedContent) = 7
    /\ PlacedContent[1].k = "tbl" /\ PlacedContent[2].k = "p" /\ PlacedContent[5].k = "tbl"


(***************************************************************************)
(* Properties of the region lookup (under Spec).                           *)
(***************************************************************************)
\* el is a content control whose own tag (by_tag) or own alias is title
OwnMark(el, title, by_tag) ==
    el.k = "sdt" /\ (IF by_tag THEN el.tag = <<title>> ELSE el.alias = <<title>>)

\* some content control of els, at any depth, has title as its own mark
RECURSIVE HoldsOwn(_, _, _)
HoldsOwn(els, title, by_tag) ==
    \E i \in 1..Len(els) :
        \/ OwnMark(els[i], title, by_tag)
        \/ els[i].k = "sdt" /\ HoldsOwn(els[i].content, title, by_tag)

\* the first element of els that is or holds such a content control
FirstHolding(els, title, by_tag) ==
    CHOOSE i \in 1..Len(els) :
        /\ HoldsOwn(<<els[i]>>, title, by_tag)
        /\ \A j \in 1..(i - 1) : ~HoldsOwn(<<els[j]>>, title, by_tag)

\* the content of the first content control, in document order, with title
\* as its own mark
RECURSIVE MatchContent(_, _, _)
MatchContent(els, title, by_tag) ==
    LET el == els[FirstHolding(els, title, by_tag)]
    IN  IF OwnMark(el, title, by_tag) THEN el.content
        ELSE MatchContent(el.content, title, by_tag)

\* els with the content of that content control replaced
RECURSIVE ReplaceMatch(_, _, _, _)
ReplaceMatch(els, title, by_tag, content) ==
    LET i == FirstHolding(els, title, by_tag)
        el == els[i]
    IN  [els EXCEPT ![i] =
            Sdt(el.tag, el.alias,
                IF OwnMark(el, title, by_tag) THEN content
                ELSE ReplaceMatch(el.content, title, by_tag, content))]

\* C23: a call with rows that returns clears and fills the first content
\* control, in document order, whose own tag is the title, or, when no
\* control has that tag, the first whose own alias is the title; a control
\* that only holds such a control keeps everything else it holds; with no
\* such control the document is left as it was.
C23_RegionLookup ==
    [][(pc = "call" /\ data.rows # <<>> /\ pc' = "done") =>
            LET by_tag == HoldsOwn(doc, tag, TRUE)
            IN  IF ~by_tag /\ ~HoldsOwn(doc, tag, FALSE)
                THEN doc' = doc
                ELSE /\ HoldsOwn(doc', tag, by_tag)
                     /\ doc' = ReplaceMatch(doc, tag, by_tag, MatchContent(doc', tag, by_tag))
                     /\ \A i \in 1..Len(MatchContent(doc', tag, by_tag)) :
                           MatchContent(doc', tag, by_tag)[i].k = "tbl"
                           \/ MatchContent(doc', tag, by_tag)[i] = NewParagraph]_vars


(***************************************************************************)
(* The totals of _create_single_table computed on a ThreadPoolExecutor:    *)
(* executor.map submits one call of calculate_column_total per header of   *)
(* table_headers[2:], worker threads take the calls from the work queue    *)
(* and run them row by row, and the main thread collects the results of    *)
(* the futures in the order of submission, then computes the grand total   *)
(* and leaves the with block, which waits for the workers.                 *)
(* pc is the position of the main thread.                                  *)
(***************************************************************************)
PoolHeaders == <<SNo, Staff, MonthName(1), MonthName(2), Total>>

PoolPayloads ==
    LET PoolRow(v1, v2) ==
            Row(<<Staff, Total, KeyMonths>>, <<VStr(<<"A">>), VStr(<<"3">>), VList>>,
                <<MonthEntry(MonthName(1), TRUE, Phase1, TRUE, v1),
                  MonthEntry(MonthName(2), TRUE, Phase1, TRUE, v2)>>)
        PoolRows == { PoolRow(VStr(<<"1">>), VStr(<<"2", ".", "5">>)),
                      PoolRow(VInt(2), VStr(<<"-", "3">>)),
                      PoolRow(VInt(1000000), VStr(<<"x">>)) }
    IN  { Payload(PoolHeaders, rs, Colors1, <<>>) :
            rs \in UNION { [1..n -> PoolRows] : n \in 1..MaxRows } }

InitPool ==
    /\ pc = "call"
    /\ tag = <<>>
    /\ data \in PoolPayloads
    /\ doc = <<>>
    /\ tables = <<>>
    /\ table_format = "custom"
    /\ cmap = EmptyDict
    /\ error = "none"
    /\ endpoint = NoEndpoint
    /\ request = NoRequest
    /\ upload = NoUpload
    /\ executor = NoExecutor

IdleThread == [task |-> 0, row |-> 0, column_total |-> ZeroTotal]

\* the headers the calls are submitted for: table_headers[2:]
Submitted == SubSeq(data.headers, 3, Len(data.headers))

\* executor.map: every call is submitted before any result is awaited
Map_calculate_column_total ==
    /\ pc = "call"
    /\ pc' = "map"
    /\ executor' = [executor EXCEPT
                        !.work_queue = [i \in 1..Len(Submitted) |-> i],
                        !.threads = [w \in 1..MaxWorkers |-> IdleThread],
                        !.futures = [i \in 1..Len(Submitted) |->
                                        [done |-> FALSE, result |-> ZeroTotal]]]
    /\ UNCHANGED <<tag, data, doc, tables, table_format, cmap, error>>
    /\ UNCHANGED <<upload, request, endpoint>>

\* an idle worker thread takes the oldest call of the work queue
Take(w) ==
    /\ w \in DOMAIN executor.threads
    /\ executor.threads[w].task = 0
    /\ executor.work_queue # <<>>
    /\ executor' = [executor EXCEPT
                        !.work_queue = Tail(@),
                        !.threads[w] = [task |-> Head(executor.work_queue), row |-> 1,
                                        column_total |-> ZeroTotal]]
    /\ UNCHANGED <<pc, tag, data, doc, tables, table_format, cmap, error>>
    /\ UNCHANGED <<upload, request, endpoint>>

\* one pass of the loop of calculate_column_total over month_maps
Accumulate(w) ==
    LET th == executor.threads[w]
    IN  /\ w \in DOMAIN executor.threads
        /\ th.task # 0
        /\ th.row <= Len(data.rows)
        /\ th.column_total.exc = "none"
        /\ \E v \in {ColumnValues(<<MonthMap(data.rows[th.row])>>, Submitted[th.task])[1]} :
              executor' = [executor EXCEPT
                              !.threads[w].row = @ + 1,
                              !.threads[w].column_total = AddValue(@, v)]
        /\ UNCHANGED <<pc, tag, data, doc, tables, table_format, cmap, error>>
        /\ UNCHANGED <<upload, request, endpoint>>

\* the call returns or raises: the worker sets the result of its future
SetResult(w) ==
    LET th == executor.threads[w]
    IN  /\ w \in DOMAIN executor.threads
        /\ th.task # 0
        /\ th.row > Len(data.rows) \/ th.column_total.exc # "none"
        /\ executor' = [executor EXCEPT
                            !.futures[th.task] = [done |-> TRUE, result |-> th.column_total],
                            !.completed = Append(@, th.task),
                            !.threads[w] = IdleThread]
        /\ UNCHANGED <<pc, tag, data, doc, tables, table_format, cmap, error>>
        /\ UNCHANGED <<upload, request, endpoint>>

\* the results taken in the order the calls completed
NextResultAsCompleted(ex) ==
    IF Len(ex.completed) > Len(ex.column_totals)
    THEN ex.completed[Len(ex.column_totals) + 1]
    ELSE Len(ex.column_totals) + 1

\* the future whose result the iterator of executor.map yields next
NextResult(ex) == Len(ex.column_totals) + 1

\* list(...) takes the next result; a call that raised raises here, and the
\* calls not yet started are cancelled
Collect ==
    /\ pc = "map"
    /\ Len(executor.column_totals) < Len(Submitted)
    /\ \E k \in {NextResult(executor)} :
          /\ executor.futures[k].done
          /\ IF executor.futures[k].result.exc = "none"
             THEN /\ executor' = [executor EXCEPT
                                      !.column_totals = Append(@, executor.futures[k].result)]
                  /\ UNCHANGED <<pc, error>>
             ELSE /\ executor' = [executor EXCEPT !.work_queue = <<>>]
                  /\ error' = executor.futures[k].result.exc
                  /\ pc' = "shutdown"
    /\ UNCHANGED <<tag, data, doc, tables, table_format, cmap>>
    /\ UNCHANGED <<upload, request, endpoint>>

\* grand_total = calculate_grand_total(), in the main thread
Call_calculate_grand_total ==
    /\ pc = "map"
    /\ Len(executor.column_totals) = Len(Submitted)
    /\ \E g \in {calculate_grand_total(data.rows)} :
          /\ executor' = [executor EXCEPT !.grand_total = g]
          /\ error' = g.exc
    /\ pc' = "shutdown"
    /\ UNCHANGED <<tag, data, doc, tables, table_format, cmap>>
    /\ UNCHANGED <<upload, request, endpoint>>

\* the with block is left once every worker is idle; then the totals row is
\* written cell by cell
Shutdown ==
    /\ pc = "shutdown"
    /\ executor.work_queue = <<>>
    /\ \A w \in 1..MaxWorkers : executor.threads[w].task = 0
    /\ IF error # "none"
       THEN pc' = "raised" /\ UNCHANGED <<executor, error>>
       ELSE \E totals_row \in
                  {[c \in 1..Len(data.headers) |->
                       TotalsCell(c - 1, data.headers[c], Len(data.rows),
                                  executor.column_totals, executor.grand_total)]} :
               /\ executor' = [executor EXCEPT !.totals_row = RowUpToRaise(totals_row)]
               /\ error' = RowExc(totals_row)
               /\ pc' = IF RowExc(totals_row) = "none" THEN "done" ELSE "raised"
    /\ UNCHANGED <<tag, data, doc, tables, table_format, cmap>>
    /\ UNCHANGED <<upload, request, endpoint>>

NextPool ==
    \/ Map_calculate_column_total
    \/ \E w \in 1..MaxWorkers : Take(w)
    \/ \E w \in 1..MaxWorkers : Accumulate(w)
    \/ \E w \in 1..MaxWorkers : SetResult(w)
    \/ Collect
    \/ Call_calculate_grand_total
    \/ Shutdown

SpecPool == InitPool /\ [][NextPool]_vars

(***************************************************************************)
(* Properties of the concurrent totals (under SpecPool).                   *)
(***************************************************************************)
\* what _create_single_table gives when the totals are computed one after
\* the other
SequentialTable ==
    _create_single_table(data.headers, data.rows, parse_color_mapping(data.colors),
                         data.headerColor, <<>>, TRUE, FALSE)

\* C24: whatever the interleaving and the order in which the workers
\* complete, the total collected for column index c >= 2 is the total of
\* the header at that index, the totals row is the one a sequential
\* computation writes and an error is raised exactly when the sequential
\* computation raises it; a step of a worker changes nothing but that
\* worker's own locals, the work queue and its own future, and the input
\* rows are never changed.
C24_ScheduleIndependentTotals ==
    /\ [](pc = "done" =>
            /\ \A c \in 3..Len(data.headers) :
                  executor.column_totals[c - 2]
                      = SumValues([i \in 1..Len(data.rows) |->
                                      RefEntryValue(data.rows[i], data.headers[c])])
            /\ SequentialTable.exc = "none"
            /\ executor.totals_row
                 = SequentialTable.tbl.rows[Len(SequentialTable.tbl.rows)])
    /\ [](pc = "raised" => (SequentialTable.exc = error /\ error # "none"))
    /\ [][/\ data' = data
          /\ \A w \in 1..MaxWorkers :
                (pc # "call" /\ pc' = pc /\ executor'.threads[w] # executor.threads[w]) =>
                    /\ \A u \in 1..MaxWorkers :
                          u # w => executor'.threads[u] = executor.threads[u]
                    /\ executor'.column_totals = executor.column_totals
                    /\ executor'.grand_total = executor.grand_total
                    /\ \A k \in 1..Len(Submitted) :
                          executor'.futures[k] # executor.futures[k]
                              => k = executor.threads[w].task]_vars

\* the call submitted first completes last, and its total differs from the
\* total of the call submitted second
C24_Witness ==
    /\ pc = "done"
    /\ Len(data.rows) = 2
    /\ executor.completed = <<2, 3, 1>>
    /\ executor.column_totals[1] # executor.column_totals[2]
    /\ executor.totals_row[3].text = <<"3">>
    /\ executor.totals_row[4].text = <<"-", "0", ".", "5">>


(***************************************************************************)
(* SharePointUtils.update_existing_document_with_version.  pc is the       *)
(* position inside the retry loop; the answers of the collaborators        *)
(* (get_file_metadata, get_access_token, requests.put) are chosen freely.  *)
(* An exception is its origin and whether its text holds 'resourceLocked'. *)
(***************************************************************************)
max_retries == 3

Exc(kind, mentions) == [kind |-> kind, mentions |-> mentions]

\* a response of requests.put: status in [200, 201] or not, a JSON body or
\* not, error.code, error.innerError.code, and whether response.text holds
\* 'resourceLocked'
Response(ok, json, code, inner, mentions) ==
    [ok |-> ok, json |-> json, code |-> code, inner |-> inner, mentions |-> mentions]

Responses ==
    { Response(TRUE, TRUE, "", "", FALSE),
      Response(TRUE, FALSE, "", "", FALSE),
      Response(FALSE, TRUE, "notAllowed", "resourceLocked", TRUE),
      Response(FALSE, TRUE, "notAllowed", "", FALSE),
      Response(FALSE, TRUE, "resourceLocked", "", TRUE),
      Response(FALSE, TRUE, "accessDenied", "resourceLocked", TRUE),
      Response(FALSE, TRUE, "invalidRequest", "", FALSE),
      Response(FALSE, FALSE, "", "", FALSE),
      Response(FALSE, FALSE, "", "", TRUE) }

InitUpload ==
    /\ pc = "get_file_metadata"
    /\ tag = <<>>
    /\ data = Payload(<<>>, <<>>, <<>>, <<>>)
    /\ doc = <<>>
    /\ tables = <<>>
    /\ table_format = ""
    /\ cmap = EmptyDict
    /\ error = "none"
    /\ executor = NoExecutor
    /\ \E iv \in BOOLEAN :
          upload = [NoUpload EXCEPT !.retry_delay = 2, !.increment_version = iv]
    /\ request = NoRequest
    /\ endpoint = NoEndpoint

\* the test with the last attempt let through as well
CanRetryOnLast(attempt) == attempt < max_retries

\* attempt < max_retries - 1
CanRetry(attempt) == attempt < max_retries - 1

\* time.sleep(retry_delay); retry_delay *= 2; continue: the next pass of the
\* loop, or the end of the function when the range is exhausted
SleepAndContinue(u) ==
    /\ upload' = [u EXCEPT !.waits = Append(@, u.retry_delay),
                           !.retry_delay = 2 * @,
                           !.attempt = @ + 1]
    /\ pc' = IF u.attempt + 1 < max_retries THEN "get_file_metadata" ELSE "returned_none"
    /\ UNCHANGED error

\* except Exception as e: sleep and continue when str(e) holds
\* 'resourceLocked' and attempts are left, else raise
Handle(u, e) ==
    IF e.mentions /\ CanRetry(u.attempt)
    THEN SleepAndContinue(u)
    ELSE upload' = u /\ pc' = "raised" /\ error' = e.kind

Call_get_file_metadata ==
    /\ pc = "get_file_metadata"
    /\ \/ \E v \in 1..2 :
             /\ upload' = [upload EXCEPT !.current_version = v]
             /\ pc' = "get_access_token"
             /\ UNCHANGED error
       \/ \E m \in BOOLEAN : Handle(upload, Exc("Failed to get file metadata", m))
    /\ UNCHANGED <<tag, data, doc, tables, table_format, cmap, executor, request, endpoint>>

Call_get_access_token ==
    /\ pc = "get_access_token"
    /\ \/ pc' = "put" /\ UNCHANGED <<upload, error>>
       \/ Handle(upload, Exc("Token Error", FALSE))
    /\ UNCHANGED <<tag, data, doc, tables, table_format, cmap, executor, request, endpoint>>

Call_requests_put ==
    /\ pc = "put"
    /\ \E r \in Responses :
          upload' = [upload EXCEPT !.puts = @ + 1, !.response = <<r>>]
    /\ pc' = "response"
    /\ UNCHANGED <<tag, data, doc, tables, table_format, cmap, error, executor, request, endpoint>>

\* the rest of the try block, from the test of response.status_code on
CheckResponse ==
    /\ pc = "response"
    /\ LET r == upload.response[1]
           u == [upload EXCEPT !.response = <<>>]
       IN  IF r.ok
           THEN IF r.json
                THEN /\ upload' = [u EXCEPT !.result =
                                      <<[majorVersion |->
                                            IF u.increment_version THEN u.current_version + 1
                                            ELSE 0]>>]
                     /\ pc' = "returned"
                     /\ UNCHANGED error
                ELSE Handle(u, Exc("JSONDecodeError", FALSE))
           ELSE IF ~r.json
           THEN Handle(u, Exc("Update failed with status", r.mentions))
           ELSE IF r.code = "notAllowed" /\ r.inner = "resourceLocked"
           THEN IF CanRetry(u.attempt)
                THEN SleepAndContinue(u)
                ELSE Handle(u, Exc("Document is locked", TRUE))
           ELSE Handle(u, Exc("Update failed", r.mentions))
    /\ UNCHANGED <<tag, data, doc, tables, table_format, cmap, executor, request, endpoint>>

NextUpload ==
    \/ Call_get_file_metadata
    \/ Call_get_access_token
    \/ Call_requests_put
    \/ CheckResponse

SpecUpload == InitUpload /\ [][NextUpload]_vars

\* every collaborator answers
SpecUploadLive == SpecUpload /\ WF_vars(NextUpload)

(***************************************************************************)
(* Properties of the upload with retries (under SpecUpload,                *)
(* SpecUploadLive).                                                        *)
(***************************************************************************)
IsPrefix(s, t) == Len(s) <= Len(t) /\ s = SubSeq(t, 1, Len(s))

\* C25: a call makes at most 3 uploads and at most 2 waits, of 2 and then 4
\* seconds; when every collaborator answers it ends, and it ends by
\* returning the upload result or by raising, never by leaving the loop
\* without a result.
C25_BoundedRetries ==
    /\ [](/\ upload.puts <= 3
          /\ IsPrefix(upload.waits, <<2, 4>>)
          /\ pc # "returned_none"
          /\ pc = "returned" => upload.result # <<>>
          /\ pc = "raised" => error # "none")
    /\ <>(pc \in {"returned", "raised"})

\* three uploads, two waits, then the error of the locked document
C25_Witness ==
    /\ pc = "raised"
    /\ error = "Document is locked"
    /\ upload.puts = 3
    /\ upload.waits = <<2, 4>>


\* the upload was rejected with code 'notAllowed' and inner code
\* 'resourceLocked'
LockedRejection(r) == ~r.ok /\ r.json /\ r.code = "notAllowed" /\ r.inner = "resourceLocked"

\* C26: a further attempt is started only after an upload rejected with
\* code 'notAllowed' and inner code 'resourceLocked'; every other failed
\* upload response, a non-JSON error body included, raises at once with no
\* wait and no further upload; the third locked rejection raises the
\* 'Document is locked' error.
C26_RetryOnlyWhenLocked ==
    [][/\ upload'.attempt # upload.attempt =>
              (pc = "response" /\ LockedRejection(upload.response[1]))
       /\ (pc = "response" /\ ~upload.response[1].ok /\ ~LockedRejection(upload.response[1])) =>
              (pc' = "raised" /\ upload'.waits = upload.waits /\ upload'.puts = upload.puts)
       /\ (pc = "response" /\ LockedRejection(upload.response[1]) /\ upload.puts = max_retries) =>
              (pc' = "raised" /\ error' = "Document is locked")]_vars


(***************************************************************************)
(* DocumentProcessor.replace_tags and process_document.  The placeholders  *)
(* are request.placeholders, the table data are tag and data               *)
(* (request.has_data tells whether table_data was given).                  *)
(***************************************************************************)
Upper == <<"A", "B", "C", "D", "E", "F", "G", "H", "I", "J", "K", "L", "M",
           "N", "O", "P", "Q", "R", "S", "T", "U", "V", "W", "X", "Y", "Z">>

\* str.lower()
Lower(s) ==
    LET small == <<"a", "b", "c", "d", "e", "f", "g", "h", "i", "j", "k", "l", "m",
                   "n", "o", "p", "q", "r", "s", "t", "u", "v", "w", "x", "y", "z">>
    IN  [i \in 1..Len(s) |->
            IF \E j \in 1..26 : Upper[j] = s[i]
            THEN small[CHOOSE j \in 1..26 : Upper[j] = s[i]] ELSE s[i]]

\* str.strip()
RECURSIVE Strip(_)
Strip(s) ==
    IF s = <<>> THEN s
    ELSE IF Head(s) = " " THEN Strip(Tail(s))
    ELSE IF s[Len(s)] = " " THEN Strip(SubSeq(s, 1, Len(s) - 1))
    ELSE s

\* sdt.find(".//w:tag"): the value of the first tag element under the
\* control, its own or that of a nested control; <<>> for none
RECURSIVE FirstTag(_)
FirstTag(el) ==
    IF el.k # "sdt" THEN <<>>
    ELSE IF el.tag # <<>> THEN el.tag[1]
    ELSE LET tagged == {i \in 1..Len(el.content) : FirstTag(el.content[i]) # <<>>}
         IN  IF tagged = {} THEN <<>>
             ELSE FirstTag(el.content[CHOOSE i \in tagged : \A j \in tagged : i <= j])

\* the first placeholder key that equals the tag once both are stripped and
\* lowered; 0 for none
MatchingKey(placeholders, tag_name) ==
    LET hits == {i \in 1..Len(placeholders.keys) :
                    Lower(Strip(placeholders.keys[i])) = Lower(Strip(tag_name))
                    /\ placeholders.keys[i] # <<>>}
    IN  IF hits = {} THEN 0 ELSE CHOOSE i \in hits : \A j \in hits : i <= j

\* text.replace('\\n', '\n'): a backslash followed by n becomes a line break
RECURSIVE WithBreaks(_)
WithBreaks(s) ==
    IF Len(s) < 2 THEN s
    ELSE IF s[1] = "\\" /\ s[2] = "n" THEN <<"\n">> \o WithBreaks(SubSeq(s, 3, Len(s)))
    ELSE <<s[1]>> \o WithBreaks(Tail(s))

\* the elements with the text of the first text element, in document order,
\* set to text; found tells whether there was one
RECURSIVE SetFirstText(_, _)
SetFirstText(els, text) ==
    IF els = <<>> THEN [els |-> <<>>, found |-> FALSE]
    ELSE LET h == Head(els)
             inner == SetFirstText(h.content, text)
             rest == SetFirstText(Tail(els), text)
         IN  IF h.k = "p" /\ h.text # <<>>
             THEN [els |-> <<P(text)>> \o Tail(els), found |-> TRUE]
             ELSE IF h.k = "sdt" /\ inner.found
             THEN [els |-> <<Sdt(h.tag, h.alias, inner.els)>> \o Tail(els), found |-> TRUE]
             ELSE [els |-> <<h>> \o rest.els, found |-> rest.found]

\* replace_tags over the controls of els in document order: a control whose
\* first tag matches a placeholder key gets its first text replaced, then
\* the controls nested in it are visited
RECURSIVE replace_tags(_, _)
replace_tags(els, placeholders) ==
    [i \in 1..Len(els) |->
        IF els[i].k # "sdt" THEN els[i]
        ELSE LET k == IF FirstTag(els[i]) = <<>> THEN 0
                      ELSE MatchingKey(placeholders, FirstTag(els[i]))
                 replaced == IF k = 0 THEN els[i]
                             ELSE SetFirstText(<<els[i]>>,
                                               WithBreaks(StrOf(placeholders.vals[k]))).els[1]
             IN  Sdt(replaced.tag, replaced.alias, replace_tags(replaced.content, placeholders))]

NewText == <<"n", "e", "w">>

PlaceholderSets ==
    { EmptyDict,
      [keys |-> <<<<" ", "N", "a", "m", "e">>>>, vals |-> <<VStr(NewText)>>],
      [keys |-> <<<<"T", "A", "B", "L", "E">>, TagOther>>, vals |-> <<VInt(5), VStr(NewText)>>],
      [keys |-> <<TagOther, TagTable>>,
       vals |-> <<VStr(<<"a", "\\", "n", "b">>), VStr(NewText)>>] }

ProcessPayloads ==
    { Payload(<<>>, <<>>, <<>>, <<>>),
      Payload(<<>>, <<FlatRow(<<KeyX>>)>>, <<>>, <<>>),
      Payload(<<>>, <<PhaseRow(VStr(Phase1)), PhaseRow(VList)>>, Colors1,
              <<LegendEntry(TRUE, Phase1, FALSE, [none |-> TRUE, c |-> <<>>])>>),
      Payload(NarrowHeaders,
              <<NarrowRow([present |-> TRUE, hasValue |-> TRUE, value |-> VStr(<<"1">>)],
                          [has |-> TRUE, value |-> VStr(<<"3">>)])>>, Colors1, <<>>) }

InitProcess ==
    /\ pc = "call"
    /\ tag \in {TagTable, TagOther}
    /\ data \in ProcessPayloads
    /\ doc \in Documents
    /\ tables = <<>>
    /\ table_format = ""
    /\ cmap = EmptyDict
    /\ error = "none"
    /\ executor = NoExecutor
    /\ upload = NoUpload
    /\ \E ph \in PlaceholderSets, hd \in BOOLEAN :
          request = [NoRequest EXCEPT !.placeholders = ph, !.has_data = hd]
    /\ endpoint = NoEndpoint

\* doc = self.replace_tags(doc, placeholders)
Call_replace_tags ==
    /\ pc = "call"
    /\ doc' = replace_tags(doc, request.placeholders)
    /\ pc' = "replaced"
    /\ UNCHANGED <<tag, data, tables, table_format, cmap, error, executor, upload, request, endpoint>>

\* if table_data: doc = generate_dynamic_table(doc, tag, table_data); then
\* the document is saved
Generate_in_process ==
    /\ pc = "replaced"
    /\ IF request.has_data
       THEN /\ \E r \in {generate_dynamic_table(doc, tag, data)} :
                  /\ doc' = r.doc
                  /\ error' = r.exc
                  /\ tables' = r.tables
                  /\ table_format' = r.table_format
                  /\ pc' = IF r.exc = "none" THEN "done" ELSE "raised"
            /\ cmap' = IF data.rows = <<>> THEN cmap ELSE parse_color_mapping(data.colors)
       ELSE pc' = "done" /\ UNCHANGED <<doc, error, tables, table_format, cmap>>
    /\ UNCHANGED <<tag, data, executor, upload, request, endpoint>>

NextProcess == Call_replace_tags \/ Generate_in_process

SpecProcess == InitProcess /\ [][NextProcess]_vars

(***************************************************************************)
(* Properties of process_document (under SpecProcess).                     *)
(***************************************************************************)
\* C30: the placeholders are substituted before the table is generated, and
\* when table data with rows name an existing region, the generation step
\* that returns leaves in that region only tables and spacing paragraphs,
\* whatever the substitution wrote there, and leaves every other part of
\* the document as the substitution left it.
C30_PlaceholdersThenTable ==
    [][/\ doc' # doc => (IF pc = "call" THEN pc' = "replaced" ELSE pc = "replaced")
       /\ (pc = "call" /\ pc' # pc) => doc' = replace_tags(doc, request.placeholders)
       /\ (/\ pc = "replaced" /\ pc' = "done" /\ request.has_data /\ data.rows # <<>>
           /\ (HoldsOwn(doc, tag, TRUE) \/ HoldsOwn(doc, tag, FALSE))) =>
              LET by_tag == HoldsOwn(doc, tag, TRUE)
              IN  /\ HoldsOwn(doc', tag, by_tag)
                  /\ doc' = ReplaceMatch(doc, tag, by_tag, MatchContent(doc', tag, by_tag))
                  /\ MatchContent(doc', tag, by_tag) # <<>>
                  /\ \A i \in 1..Len(MatchContent(doc', tag, by_tag)) :
                        MatchContent(doc', tag, by_tag)[i].k = "tbl"
                        \/ MatchContent(doc', tag, by_tag)[i] = NewParagraph]_vars


(***************************************************************************)
(* generate_document, the handler of POST /api/generatedocument.           *)
(* endpoint.env says what the collaborators would answer: the download     *)
(* (get_document_by_name), the processing of the document, the first       *)
(* upload and the fallback upload.  endpoint.steps lists the collaborator  *)
(* calls made, endpoint.uploads the names uploaded under.                  *)
(***************************************************************************)
\* the positional parameters of process_document after self
process_document_params == 4

\* the positional arguments generate_document passes to it
process_document_args == 5

DocName == <<"r", ".", "d", "o", "c", "x">>
DriveId == <<"d", "1">>

Environments ==
    [fetch : {"ok", "fail"}, process : {"ok", "fail"},
     upload1 : {"ok", "resourceLocked", "Locked", "other"}, upload2 : {"ok", "fail"}]

InitEndpoint ==
    /\ pc = "call"
    /\ tag = <<>>
    /\ data = Payload(<<>>, <<>>, <<>>, <<>>)
    /\ doc = <<>>
    /\ tables = <<>>
    /\ table_format = ""
    /\ cmap = EmptyDict
    /\ error = "none"
    /\ executor = NoExecutor
    /\ upload = NoUpload
    /\ request \in [documentIsOld : {0, 1, 2}, documentName : {<<>>, DocName},
                    driveId : {<<>>, DriveId}, placeholders : {EmptyDict},
                    has_data : BOOLEAN]
    /\ \E env \in Environments : endpoint = [NoEndpoint EXCEPT !.env = env]

\* what the collaborators answer
Env == endpoint.env

\* raise HTTPException(status_code, detail)
Respond(ep, status_code, detail) ==
    [ep EXCEPT !.status_code = status_code, !.detail = detail]

\* request.documentIsOld == 1 or request.documentIsOld is True
is_existing_document == request.documentIsOld = 1

\* the handler up to the download of the document
Call_get_document_by_name ==
    /\ pc = "call"
    /\ IF request.documentName = <<>>
       THEN /\ endpoint' = Respond(endpoint, 400, "documentName is required")
            /\ pc' = "responded"
       ELSE IF ~is_existing_document /\ request.driveId = <<>>
       THEN \* the HTTPException raised for the missing driveId is caught by
            \* the except Exception clause of the same try block
            /\ endpoint' = Respond(endpoint, 404, "not found in specified drive")
            /\ pc' = "responded"
       ELSE IF Env.fetch = "ok"
       THEN /\ endpoint' = [endpoint EXCEPT !.steps = Append(@, "fetch")]
            /\ pc' = "fetched"
       ELSE /\ endpoint' = Respond([endpoint EXCEPT !.steps = Append(@, "fetch")], 404,
                                   IF is_existing_document THEN "not found in Output folder"
                                   ELSE "not found in specified drive")
            /\ pc' = "responded"
    /\ UNCHANGED <<tag, data, doc, tables, table_format, cmap, error, executor, upload, request>>

\* the handler from the upload on: the first upload, the fallback upload
\* for a lock error, the response
UploadAndRespond(ep, env, existing) ==
    LET first == [ep EXCEPT !.steps = Append(@, "upload"),
                            !.uploads = <<IF existing THEN "documentName" ELSE "generated">>]
        second == [first EXCEPT !.steps = Append(@, "upload"),
                                !.uploads = Append(@, "_updated_")]
    IN  IF env.upload1 = "ok"
        THEN [Respond(first, 200, "success") EXCEPT !.version = IF existing THEN 2 ELSE 1]
        ELSE IF env.upload1 \in {"resourceLocked", "Locked"}
        THEN IF env.upload2 = "ok"
             THEN [Respond(second, 200, "success") EXCEPT !.version = 1]
             ELSE Respond(second, 500, "Document is locked and fallback creation failed")
        ELSE Respond(first, 500, "Failed to save document to SharePoint")

\* doc_processor.process_document(document_stream, request.placeholders,
\* None, table_data, project_brief_data) and the rest of the handler
Call_process_document ==
    /\ pc = "fetched"
    /\ LET called == [endpoint EXCEPT !.steps = Append(@, "process")]
       IN  endpoint' =
              IF process_document_args > process_document_params
              THEN \* TypeError: too many positional arguments
                   Respond(called, 500, "Document processing failed")
              ELSE IF Env.process = "fail"
              THEN Respond(called, 500, "Document processing failed")
              ELSE UploadAndRespond(called, Env, is_existing_document)
    /\ pc' = "responded"
    /\ UNCHANGED <<tag, data, doc, tables, table_format, cmap, error, executor, upload, request>>

NextEndpoint == Call_get_document_by_name \/ Call_process_document

SpecEndpoint == InitEndpoint /\ [][NextEndpoint]_vars

(***************************************************************************)
(* Properties of the endpoint (under SpecEndpoint).                        *)
(***************************************************************************)
\* C27: a request for a new document (documentIsOld not 1) that has a
\* document name but no driveId is answered with status 400 and the detail
\* 'driveId is required for new documents', and no download, processing or
\* upload is attempted.
C27_MissingDriveIdIs400 ==
    (pc = "responded" /\ request.documentIsOld # 1 /\ request.documentName # <<>>
        /\ request.driveId = <<>>) =>
        /\ endpoint.status_code = 400
        /\ endpoint.detail = "driveId is required for new documents"
        /\ endpoint.steps = <<>>

\* the request passes the checks of the handler
ValidRequest ==
    request.documentName # <<>> /\ (request.documentIsOld = 1 \/ request.driveId # <<>>)

\* C28: when the download succeeds, the document processes and the upload
\* would succeed, a valid request is answered with success and version 1
\* for a new document and 2 for an existing one, after the steps fetch,
\* process, upload in that order.
C28_SuccessPath ==
    (pc = "responded" /\ ValidRequest /\ Env.fetch = "ok" /\ Env.process = "ok"
        /\ Env.upload1 = "ok") =>
        /\ endpoint.status_code = 200
        /\ endpoint.detail = "success"
        /\ endpoint.version = IF request.documentIsOld = 1 THEN 2 ELSE 1
        /\ endpoint.steps = <<"fetch", "process", "upload">>

====
